---- MODULE Spec2Model ----
(***************************************************************************)
(* Discotify background service worker: token lifecycle, search cascade,   *)
(* term cleaning and album ranking.                                        *)
(*                                                                         *)
(* JavaScript strings are modelled as sequences of characters, a character *)
(* being a one-character string ("a") or a named code point ("U+00E9").    *)
(***************************************************************************)
EXTENDS Integers, Sequences, FiniteSets, TLC

\* ------------------------------------------------------------------------
\* Characters and strings
\* ------------------------------------------------------------------------

\* JS null / undefined for a metadata field (a string-valued slot).
NullTerm == <<"null">>

\* JS null for an identifier-valued slot (clientId, clientSecret).
Null == "null"

\* JS falsiness of a string-or-null value: null, undefined and '' are falsy.
Falsy(t) == t = NullTerm \/ t = <<>>

UpperChars == <<"A","B","C","D","E","F","G","H","I","J","K","L","M",
                "N","O","P","Q","R","S","T","U","V","W","X","Y","Z">>
LowerChars == <<"a","b","c","d","e","f","g","h","i","j","k","l","m",
                "n","o","p","q","r","s","t","u","v","w","x","y","z">>
DigitChars == {"0","1","2","3","4","5","6","7","8","9"}

\* String.prototype.toLowerCase on one character.
ToLowerChar(c) ==
  IF \E i \in 1..Len(UpperChars) : UpperChars[i] = c
  THEN LowerChars[CHOOSE i \in 1..Len(UpperChars) : UpperChars[i] = c]
  ELSE IF c = "U+00C9" THEN "U+00E9" ELSE c

ToLowerCase(s) == [i \in 1..Len(s) |-> ToLowerChar(s[i])]

\* Regex class \s (the model's strings hold no other white space than " ").
IsSpace(c) == c = " "
\* Regex class \d.
IsDigit(c) == c \in DigitChars
\* Regex class \w: [A-Za-z0-9_].
IsWord(c) ==
  \/ \E i \in 1..Len(UpperChars) : UpperChars[i] = c \/ LowerChars[i] = c
  \/ c \in DigitChars
  \/ c = "_"

\* First index >= i of s that holds no white space (Len(s)+1 if none):
\* where a greedy \s* that starts at i stops.
RECURSIVE SkipSpaces(_, _)
SkipSpaces(s, i) ==
  IF i > Len(s) THEN i
  ELSE IF IsSpace(s[i]) THEN SkipSpaces(s, i + 1) ELSE i

\* Least index k >= i with s[k] = c, or 0 when there is none.
IndexOfFrom(s, c, i) ==
  IF \E k \in i..Len(s) : s[k] = c
  THEN CHOOSE k \in i..Len(s) : s[k] = c /\ \A j \in i..(k - 1) : s[j] # c
  ELSE 0

\* Whether the lower-case keyword kw occurs in s at index q, ignoring case
\* (regex flag i).
KeywordAt(s, q, kw) ==
  /\ q >= 1
  /\ q + Len(kw) - 1 <= Len(s)
  /\ \A d \in 1..Len(kw) : ToLowerChar(s[q + d - 1]) = kw[d]

\* ------------------------------------------------------------------------
\* cleanSearchTerm
\* ------------------------------------------------------------------------

\* Whether all of t matches \s*\(\d+\)\s* .
MatchesDisambiguation(t) ==
  \E p \in 1..Len(t) : \E q \in (p + 2)..Len(t) :
    /\ \A k \in 1..(p - 1) : IsSpace(t[k])
    /\ t[p] = "("
    /\ \A k \in (p + 1)..(q - 1) : IsDigit(t[k])
    /\ t[q] = ")"
    /\ \A k \in (q + 1)..Len(t) : IsSpace(t[k])

\* .replace(/\s*\(\d+\)\s*$/g, ''): the leftmost start whose suffix matches.
StripDisambiguation(s) ==
  LET starts == {i \in 1..Len(s) : MatchesDisambiguation(SubSeq(s, i, Len(s)))}
  IN  IF starts = {} THEN s
      ELSE SubSeq(s, 1, (CHOOSE i \in starts : \A j \in starts : i <= j) - 1)

\* End (exclusive) of the match of \s*\[.*?\]\s* that starts at i, or 0.
BracketMatchEnd(s, i) ==
  LET j == SkipSpaces(s, i)
      k == IF j <= Len(s) /\ s[j] = "[" THEN IndexOfFrom(s, "]", j + 1) ELSE 0
  IN  IF k = 0 THEN 0 ELSE SkipSpaces(s, k + 1)

\* .replace(/\s*\[.*?\]\s*/g, '') scanning from index i.
RECURSIVE StripBracketedFrom(_, _)
StripBracketedFrom(s, i) ==
  IF i > Len(s) THEN <<>>
  ELSE LET e == BracketMatchEnd(s, i)
       IN  IF e # 0 THEN StripBracketedFrom(s, e)
           ELSE <<s[i]>> \o StripBracketedFrom(s, i + 1)

\* A variant of StripBracketed that replaces the first match only (no g
\* flag).
StripBracketed_FirstOnly(s) ==
  LET starts == {i \in 1..Len(s) : BracketMatchEnd(s, i) # 0}
      first  == CHOOSE i \in starts : \A j \in starts : i <= j
  IN  IF starts = {} THEN s
      ELSE SubSeq(s, 1, first - 1) \o SubSeq(s, BracketMatchEnd(s, first), Len(s))

StripBracketed(s) == StripBracketedFrom(s, 1)

\* End (exclusive) of the match of \s*\(.*?KW.*?\)\s* (flag i) that starts
\* at i, or 0. The lazy .*? take the first occurrence of the keyword after
\* the "(" and the first ")" after that keyword; "." also matches "(" and ")".
ParenKeywordMatchEnd(s, i, kw) ==
  LET j  == SkipSpaces(s, i)
      qs == IF j <= Len(s) /\ s[j] = "("
            THEN {q \in (j + 1)..Len(s) :
                    KeywordAt(s, q, kw) /\ IndexOfFrom(s, ")", q + Len(kw)) # 0}
            ELSE {}
  IN  IF qs = {} THEN 0
      ELSE LET q == CHOOSE x \in qs : \A y \in qs : x <= y
           IN  SkipSpaces(s, IndexOfFrom(s, ")", q + Len(kw)) + 1)

\* .replace(/\s*\(.*?KW.*?\)\s*/gi, '') scanning from index i.
RECURSIVE StripParenKeywordFrom(_, _, _)
StripParenKeywordFrom(s, i, kw) ==
  IF i > Len(s) THEN <<>>
  ELSE LET e == ParenKeywordMatchEnd(s, i, kw)
       IN  IF e # 0 THEN StripParenKeywordFrom(s, e, kw)
           ELSE <<s[i]>> \o StripParenKeywordFrom(s, i + 1, kw)

StripParenKeyword(s, kw) == StripParenKeywordFrom(s, 1, kw)

\* .replace(/['']/g, "'").replace(/[""]/g, '"'): both classes of the source
\* hold the straight quote itself.
NormalizeQuotes(s) ==
  [i \in 1..Len(s) |-> IF s[i] = "'" THEN "'"
                        ELSE IF s[i] = "\"" THEN "\"" ELSE s[i]]

\* .replace(/\s+/g, ' ') scanning from index i.
RECURSIVE CollapseSpacesFrom(_, _)
CollapseSpacesFrom(s, i) ==
  IF i > Len(s) THEN <<>>
  ELSE IF IsSpace(s[i]) THEN <<" ">> \o CollapseSpacesFrom(s, SkipSpaces(s, i))
  ELSE <<s[i]>> \o CollapseSpacesFrom(s, i + 1)

CollapseSpaces(s) == CollapseSpacesFrom(s, 1)

\* String.prototype.trim.
Trim(s) ==
  LET keep == {i \in 1..Len(s) : ~IsSpace(s[i])}
  IN  IF keep = {} THEN <<>>
      ELSE SubSeq(s, CHOOSE i \in keep : \A j \in keep : i <= j,
                     CHOOSE i \in keep : \A j \in keep : i >= j)

KwEdition  == <<"e","d","i","t","i","o","n">>
KwRemaster == <<"r","e","m","a","s","t","e","r">>
KwVersion  == <<"v","e","r","s","i","o","n">>
KwDeluxe   == <<"d","e","l","u","x","e">>
KwBonus    == <<"b","o","n","u","s">>

cleanSearchTerm(term) ==
  IF Falsy(term) THEN <<>>
  ELSE Trim(CollapseSpaces(NormalizeQuotes(
         StripParenKeyword(
           StripParenKeyword(
             StripParenKeyword(
               StripParenKeyword(
                 StripParenKeyword(
                   StripBracketed(StripDisambiguation(term)),
                   KwEdition),
                 KwRemaster),
               KwVersion),
             KwDeluxe),
           KwBonus))))

\* ------------------------------------------------------------------------
\* normalizeForComparison, fuzzyMatch, findBestAlbumMatch
\* ------------------------------------------------------------------------

\* String.prototype.normalize('NFD') on one character: a precomposed letter
\* becomes its base letter followed by a combining mark.
DecomposeChar(c) ==
  IF c = "U+00E9" THEN <<"e", "U+0301">> ELSE <<c>>

RECURSIVE NormalizeNFD(_)
NormalizeNFD(s) ==
  IF s = <<>> THEN <<>> ELSE DecomposeChar(Head(s)) \o NormalizeNFD(Tail(s))

\* Range U+0300..U+036F (combining diacritical marks).
IsCombiningMark(c) == c \in {"U+0301"}

\* .replace(/[\u0300-\u036f]/g, '')
StripDiacritics(s) == SelectSeq(s, LAMBDA c : ~IsCombiningMark(c))

\* .replace(/[^\w\s]/g, ' ')
ReplaceSpecialChars(s) ==
  [i \in 1..Len(s) |-> IF IsWord(s[i]) \/ IsSpace(s[i]) THEN s[i] ELSE " "]

normalizeForComparison(str) ==
  IF Falsy(str) THEN <<>>
  ELSE Trim(CollapseSpaces(ReplaceSpecialChars(
         StripDiacritics(NormalizeNFD(ToLowerCase(str))))))

\* String.prototype.includes: b occurs in a as a contiguous substring.
Includes(a, b) ==
  \E i \in 1..(Len(a) - Len(b) + 1) : SubSeq(a, i, i + Len(b) - 1) = b

\* A variant of getBigrams that collects substring(i, i + 1).
getBigrams_OneCharacter(str) == {<<str[i]>> : i \in 1..(Len(str) - 1)}

getBigrams(str) == {<<str[i], str[i + 1]>> : i \in 1..(Len(str) - 1)}

\* The quotient num/den of fuzzyMatch; den = 0 (with num = 0) is NaN.
fuzzyMatch(str1, str2) ==
  IF Falsy(str1) \/ Falsy(str2) THEN [num |-> 0, den |-> 1]
  ELSE IF str1 = str2 THEN [num |-> 1, den |-> 1]
  ELSE LET bigrams1 == getBigrams(str1)
           bigrams2 == getBigrams(str2)
           matches  == Cardinality({b \in bigrams1 : b \in bigrams2})
       IN  [num |-> 2 * matches,
            den |-> Cardinality(bigrams1) + Cardinality(bigrams2)]

\* f > 0.7 in IEEE arithmetic on the quotient: false for NaN.
GreaterThan07(f) == f.den # 0 /\ 10 * f.num > 7 * f.den

\* A variant of AlbumScore in which the rules for the album name add up.
AlbumScore_RulesAddUp(album, normalizedArtist, normalizedAlbum) ==
  LET albumName == normalizeForComparison(album.name)
      artistNames == [i \in 1..Len(album.artists) |->
                        normalizeForComparison(album.artists[i])]
  IN  (IF albumName = normalizedAlbum THEN 100 ELSE 0)
      + (IF Includes(albumName, normalizedAlbum)
            \/ Includes(normalizedAlbum, albumName) THEN 60 ELSE 0)
      + (IF GreaterThan07(fuzzyMatch(albumName, normalizedAlbum)) THEN 40 ELSE 0)
      + (IF \E i \in 1..Len(artistNames) :
              \/ Includes(artistNames[i], normalizedArtist)
              \/ Includes(normalizedArtist, artistNames[i])
         THEN 50
         ELSE IF \E i \in 1..Len(artistNames) :
                   GreaterThan07(fuzzyMatch(artistNames[i], normalizedArtist))
         THEN 25 ELSE 0)
      + (CASE album.album_type = "album" -> 15
           [] album.album_type = "single" -> 0 - 10
           [] album.album_type = "compilation" -> 0 - 5
           [] OTHER -> 0)
      + (IF album.total_tracks >= 8 THEN 5 ELSE 0)

\* The score of one catalog album (the body of albums.map).
AlbumScore(album, normalizedArtist, normalizedAlbum) ==
  LET albumName   == normalizeForComparison(album.name)
      artistNames == [i \in 1..Len(album.artists) |->
                        normalizeForComparison(album.artists[i])]
      nameScore ==
        IF albumName = normalizedAlbum THEN 100
        ELSE IF Includes(albumName, normalizedAlbum)
                \/ Includes(normalizedAlbum, albumName) THEN 60
        ELSE IF GreaterThan07(fuzzyMatch(albumName, normalizedAlbum)) THEN 40
        ELSE 0
      artistMatch ==
        \E i \in 1..Len(artistNames) :
          \/ artistNames[i] = normalizedArtist
          \/ Includes(artistNames[i], normalizedArtist)
          \/ Includes(normalizedArtist, artistNames[i])
      artistScore ==
        IF artistMatch THEN 50
        ELSE IF \E i \in 1..Len(artistNames) :
                  GreaterThan07(fuzzyMatch(artistNames[i], normalizedArtist))
             THEN 25
        ELSE 0
      typeScore ==
        IF album.album_type = "album" THEN 15
        ELSE IF album.album_type = "single" THEN 0 - 10
        ELSE IF album.album_type = "compilation" THEN 0 - 5
        ELSE 0
      tracksScore == IF album.total_tracks >= 8 THEN 5 ELSE 0
  IN  nameScore + artistScore + typeScore + tracksScore

\* A variant of InsertByScore that puts x before the elements of equal score.
RECURSIVE InsertByScore_BeforeEqual(_, _)
InsertByScore_BeforeEqual(sorted, x) ==
  IF sorted = <<>> THEN <<x>>
  ELSE IF Head(sorted).score > x.score
       THEN <<Head(sorted)>> \o InsertByScore_BeforeEqual(Tail(sorted), x)
       ELSE <<x>> \o sorted

\* Insert x into a sequence sorted by descending score, after every element
\* whose score is not smaller (Array.prototype.sort is stable).
RECURSIVE InsertByScore(_, _)
InsertByScore(sorted, x) ==
  IF sorted = <<>> THEN <<x>>
  ELSE IF Head(sorted).score >= x.score
       THEN <<Head(sorted)>> \o InsertByScore(Tail(sorted), x)
       ELSE <<x>> \o sorted

\* scored.sort((a, b) => b.score - a.score)
RECURSIVE SortByScore(_)
SortByScore(scored) ==
  IF scored = <<>> THEN <<>>
  ELSE InsertByScore(SortByScore(SubSeq(scored, 1, Len(scored) - 1)),
                     scored[Len(scored)])

\* No match (the null a search or the ranker returns).
NoMatch == [type |-> "none"]

\* The object returned for the best album (image and url, copied from the
\* catalog record like uri, are left out).
MatchOf(album) ==
  [type        |-> "album",
   uri         |-> album.uri,
   id          |-> album.id,
   name        |-> album.name,
   artist      |-> IF Len(album.artists) > 0 THEN album.artists[1] ELSE NullTerm,
   totalTracks |-> album.total_tracks]

\* The least score the best album needs to be returned.
MinScore == 50

\* A variant of findBestAlbumMatch that returns the best album whatever its
\* score.
findBestAlbumMatch_AnyScore(albums, expectedArtist, expectedAlbum) ==
  LET normalizedArtist == normalizeForComparison(expectedArtist)
      normalizedAlbum  == normalizeForComparison(expectedAlbum)
      sorted == SortByScore([i \in 1..Len(albums) |->
                   [album |-> albums[i],
                    score |-> AlbumScore(albums[i], normalizedArtist,
                                         normalizedAlbum)]])
  IN  IF sorted # <<>> THEN MatchOf(sorted[1].album) ELSE NoMatch

findBestAlbumMatch(albums, expectedArtist, expectedAlbum) ==
  LET normalizedArtist == normalizeForComparison(expectedArtist)
      normalizedAlbum  == normalizeForComparison(expectedAlbum)
      scored == [i \in 1..Len(albums) |->
                   [album |-> albums[i],
                    score |-> AlbumScore(albums[i], normalizedArtist,
                                         normalizedAlbum)]]
      sorted == SortByScore(scored)
  IN  IF sorted # <<>> /\ sorted[1].score >= MinScore
      THEN MatchOf(sorted[1].album)
      ELSE NoMatch

\* ------------------------------------------------------------------------
\* Inputs: metadata sent by the content script, catalog records
\* ------------------------------------------------------------------------

PinkFloyd == <<"P","i","n","k"," ","F","l","o","y","d">>
Meddle    == <<"M","e","d","d","l","e">>

\* A release page with a Discogs disambiguation suffix on the title.
MdPlain == [artist |-> PinkFloyd, album |-> Meddle \o <<" ","(","2",")">>]
\* A page whose only scraped field is an annotation.
MdAnnotation == [artist |-> NullTerm, album |-> <<"[","L","P","]">>]
\* A page on which nothing was found.
MdNothing == [artist |-> NullTerm, album |-> <<>>]

Metadata == {MdPlain, MdAnnotation, MdNothing}

AlbMeddle ==
  [id |-> "a1", uri |-> "spotify:album:a1", name |-> Meddle,
   artists |-> <<PinkFloyd>>, album_type |-> "album", total_tracks |-> 6]
AlbOther ==
  [id |-> "a2", uri |-> "spotify:album:a2", name |-> <<"X","y","z">>,
   artists |-> <<<<"Q","r","s">>>>, album_type |-> "single", total_tracks |-> 2]

\* data.albums.items of the catalog's answers.
ResultSets == {<<>>, <<AlbOther>>, <<AlbOther, AlbMeddle>>}

\* The four queries of the strategies list, in list order.
Strategies(cleanArtist, cleanAlbum) ==
  << <<"a","l","b","u","m",":","\"">> \o cleanAlbum
       \o <<"\""," ","a","r","t","i","s","t",":","\"">> \o cleanArtist \o <<"\"">>,
     <<"a","l","b","u","m",":">> \o cleanAlbum
       \o <<" ","a","r","t","i","s","t",":">> \o cleanArtist,
     cleanArtist \o <<" ">> \o cleanAlbum,
     <<"\"">> \o cleanAlbum \o <<"\"">> >>

\* cleanSearchTerm on the fields of the model's pages and findBestAlbumMatch
\* on the model's result sets, evaluated once (as sets of <<argument, value>>
\* pairs) and looked up by the steps.
ScrapedTerms == {md.artist : md \in Metadata} \cup {md.album : md \in Metadata}

CleanedTerms == {<<term, cleanSearchTerm(term)>> : term \in ScrapedTerms}

Cleaned(term) == (CHOOSE c \in CleanedTerms : c[1] = term)[2]

CleanTerms == {c[2] : c \in CleanedTerms}

BestMatches ==
  {<<q, findBestAlbumMatch(q[1], q[2], q[3])>> :
     q \in ResultSets \X CleanTerms \X CleanTerms}

BestMatch(albums, expectedArtist, expectedAlbum) ==
  (CHOOSE m \in BestMatches :
     m[1] = <<albums, expectedArtist, expectedAlbum>>)[2]

\* ------------------------------------------------------------------------
\* Time, tokens, storage
\* ------------------------------------------------------------------------

\* Date.now() at service start, in ms.
StartTime == 1000000

\* The instants Date.now() takes in the model.
Instants ==
  {StartTime + d : d \in {0, 3539999, 3540000, 3599000, 3600001}}

\* expires_in (seconds) of the token endpoint's answers.
Lifetimes == {3600, 61}

\* The status classes of the catalog's answers (200, 401, another status
\* that is not ok, a rejected fetch) and of the token endpoint's.
CatalogAnswers == {"ok", "unauthorized", "error", "failed"}
TokenAnswers == {"ok", "rejected", "failed"}

\* What else can happen to the service besides SEARCH_SPOTIFY messages: the
\* other three messages, a firing of the renewal timer, and a change of the
\* stored credentials.
Events == {"GET_AUTH_STATUS", "AUTHENTICATE", "LOGOUT", "timer", "credentials",
           "restart"}

\* The surroundings of a run: the tabs that send SEARCH_SPOTIFY messages and
\* the pages they show (the metadata of the messages), the other events that
\* happen, the answers the catalog and the token endpoint give, the
\* lifetimes the token endpoint grants and the instants at which something
\* happens. A run either walks the cascade on every kind of page while the
\* clock crosses one expiry, or follows the token through every instant and
\* lifetime on pages whose search ends before the cascade, or has two tabs
\* search at once, or has the timer fire and the popup ask while the clock
\* crosses one expiry, or has the popup connect and disconnect during a
\* search, or has the stored credentials change during a search, or has
\* the browser stop the idle service worker and start it anew, once, after
\* a search answered 401 or a change of the stored credentials.
CascadeRun ==
  [searches  |-> {"s1"},
   pages     |-> Metadata,
   events    |-> {},
   catalog   |-> CatalogAnswers,
   results   |-> ResultSets,
   exchanges |-> TokenAnswers,
   lifetimes |-> {3600},
   instants  |-> {StartTime, StartTime + 3540000}]
TokenRun ==
  [searches  |-> {"s1"},
   pages     |-> {MdNothing},
   events    |-> {},
   catalog   |-> CatalogAnswers,
   results   |-> ResultSets,
   exchanges |-> TokenAnswers,
   lifetimes |-> Lifetimes,
   instants  |-> Instants]
RaceRun ==
  [searches  |-> {"s1", "s2"},
   pages     |-> {MdPlain},
   events    |-> {},
   catalog   |-> {"ok"},
   results   |-> {<<AlbOther, AlbMeddle>>},
   exchanges |-> {"ok", "rejected"},
   lifetimes |-> Lifetimes,
   instants  |-> {StartTime, StartTime + 3540000}]
TimerRun ==
  [searches  |-> {},
   pages     |-> {},
   events    |-> {"GET_AUTH_STATUS", "LOGOUT", "timer"},
   catalog   |-> {},
   results   |-> {},
   exchanges |-> TokenAnswers,
   lifetimes |-> {3600},
   instants  |-> {StartTime, StartTime + 3540000}]
PopupRun ==
  [searches  |-> {"s1"},
   pages     |-> {MdPlain},
   events    |-> {"AUTHENTICATE", "LOGOUT"},
   catalog   |-> {"ok"},
   results   |-> {<<AlbOther, AlbMeddle>>},
   exchanges |-> TokenAnswers,
   lifetimes |-> {3600},
   instants  |-> {StartTime}]
CredentialsRun ==
  [searches  |-> {"s1"},
   pages     |-> {MdPlain},
   events    |-> {"AUTHENTICATE", "credentials"},
   catalog   |-> {"ok"},
   results   |-> {<<AlbOther, AlbMeddle>>},
   exchanges |-> {"ok"},
   lifetimes |-> {3600},
   instants  |-> {StartTime}]
RestartRun ==
  [searches  |-> {"s1"},
   pages     |-> {MdPlain},
   events    |-> {"credentials", "restart"},
   catalog   |-> {"unauthorized"},
   results   |-> {},
   exchanges |-> {"ok", "rejected"},
   lifetimes |-> {3600},
   instants  |-> {StartTime}]

Runs == {CascadeRun, TokenRun, RaceRun, TimerRun, PopupRun, CredentialsRun,
         RestartRun}

\* JS null in a number-valued slot (tokenExpiresAt, spotifyTokenExpires).
NullNum == -1

\* ToNumber in a relational comparison: null is 0.
ToNumber(v) == IF v = NullNum THEN 0 ELSE v

\* JS null in the token slot (accessToken, spotifyToken).
NoToken == [cid |-> Null, secret |-> Null, iat |-> 0, expires_in |-> 0]

\* data.access_token of an exchange answered at time t for the credentials of
\* the request with lifetime e: what the server knows about the token.
IssuedToken(cid, secret, t, e) ==
  [cid |-> cid, secret |-> secret, iat |-> t, expires_in |-> e]

\* A variant of ExpiresAtOf without the one-minute margin.
ExpiresAtOf_NoMargin(t, e) == t + (e * 1000)

\* Date.now() + (data.expires_in * 1000) - 60000
ExpiresAtOf(t, e) == t + (e * 1000) - 60000

Truthy(v) == v # Null

\* What chrome.storage.local can hold at service start: credentials saved by
\* the popup (or none, or half of them) and a token saved by an earlier run.
StoredCredentials == {<<Null, Null>>, <<"id1", Null>>, <<"id1", "secret1">>}

\* The credentials a later save puts in storage: a new client id with the
\* old secret, or none (both keys removed).
SavedCredentials == {<<"id2", "secret1">>, <<Null, Null>>}
StoredTokenAges == {100000, 3600000}

InitialStorages ==
  {[spotifyClientId |-> c[1], spotifyClientSecret |-> c[2],
    spotifyToken |-> NoToken, spotifyTokenExpires |-> NullNum] :
      c \in StoredCredentials}
  \cup
  {[spotifyClientId |-> "id1", spotifyClientSecret |-> "secret1",
    spotifyToken |-> IssuedToken("id1", "secret1", StartTime - a, 3600),
    spotifyTokenExpires |-> ExpiresAtOf(StartTime - a, 3600)] :
      a \in StoredTokenAges}

\* ------------------------------------------------------------------------
\* State
\* ------------------------------------------------------------------------

VARIABLES
  env,             \* the surroundings of the run
  now,             \* Date.now()
  clientId,        \* let clientId
  clientSecret,    \* let clientSecret
  accessToken,     \* let accessToken
  tokenExpiresAt,  \* let tokenExpiresAt
  storage,         \* chrome.storage.local
  task,            \* the async functions in progress, by task
  net,             \* fetch requests in flight
  storageCalls,    \* chrome.storage.local calls not yet served, in call order
  changed,         \* chrome.storage.onChanged events not yet delivered
  invalidated,     \* the tokens set to null on a 401 or a credentials change
  call,            \* the call of a function evaluated on its own
  script,          \* the content script of a tab (an instance of Spotcogs)
  tab              \* the tab's location and document, and the stored setting

vars == <<env, now, clientId, clientSecret, accessToken, tokenExpiresAt,
          storage, task, net, storageCalls, changed, invalidated,
          call, script, tab>>

\* What no step of the service worker changes.
others == <<call, script, tab>>

\* What the service worker's steps read and change.
service == <<env, now, clientId, clientSecret, accessToken, tokenExpiresAt,
             storage, task, net, storageCalls, changed, invalidated>>

memory == <<clientId, clientSecret, accessToken, tokenExpiresAt>>

\* The handlers of SEARCH_SPOTIFY messages that can be in progress.
Searches == {"s1", "s2"}

\* A counter of the history kept per search stops counting here.
MaxCount == 3

Sat(n) == IF n >= MaxCount THEN MaxCount ELSE n + 1

NoAnswer == [status |-> "none", albums |-> <<>>]

\* A task at rest. pc is the await the task is suspended at; ctx the caller
\* of getClientCredentialsToken; pending the argument of storage.local.set.
\* The other fields record what the handler of the current message has done
\* so far: responses counts its sendResponse calls; issued tells whether it
\* has sent a catalog request; attempts counts the requests of the current
\* strategy; last is the catalog's latest answer and passed tells whether an
\* earlier answer held an album the ranker accepts; ensure and ensureAt tell
\* how ensureValidToken went and when it was called; q401 is the query of the
\* current strategy's latest request answered 401; loggedOut tells whether
\* a LOGOUT was handled while the task's current token request was in
\* flight.
FreshTask ==
  [pc          |-> "idle",
   ctx         |-> "none",
   md          |-> MdNothing,
   cleanArtist |-> <<>>,
   cleanAlbum  |-> <<>>,
   strategy    |-> 0,
   query       |-> <<>>,
   pending     |-> [spotifyToken |-> NoToken, spotifyTokenExpires |-> NullNum],
   result      |-> NoMatch,
   responses   |-> 0,
   issued      |-> FALSE,
   attempts    |-> 0,
   last        |-> NoAnswer,
   passed      |-> FALSE,
   ensure      |-> "none",
   ensureAt    |-> 0,
   q401        |-> <<>>,
   loggedOut   |-> FALSE]

\* ------------------------------------------------------------------------
\* Steps of the async functions. Each yields the task's next record and the
\* requests it sends: [p |-> ..., send |-> ...].
\* ------------------------------------------------------------------------

\* sendResponse(value) of the SEARCH_SPOTIFY listener: handleSpotifySearch
\* resolved with value, or rejected and value is null.
Respond(p, value) ==
  [p    |-> [p EXCEPT !.pc = "done", !.result = value,
                      !.responses = Sat(p.responses)],
   send |-> {}]

\* searchAlbums up to its fetch: the request carries the accessToken of the
\* moment.
IssueSearch(t, p, query, i, token) ==
  [p    |-> [p EXCEPT !.pc = "search_wait", !.strategy = i, !.query = query,
                      !.issued = TRUE,
                      !.attempts = IF i = p.strategy THEN Sat(p.attempts) ELSE 1,
                      !.q401 = IF i = p.strategy THEN p.q401 ELSE <<>>],
   send |-> {[task |-> t, kind |-> "search", query |-> query,
              bearer |-> token, strategy |-> i]}]

\* strategy(): the i-th closure of the strategies list.
CallStrategy(t, p, i, token) ==
  IssueSearch(t, p, Strategies(p.cleanArtist, p.cleanAlbum)[i], i, token)

\* A variant of AdvanceCascade whose loop steps over a strategy.
AdvanceCascade_SkipsOne(t, p, token) ==
  IF p.strategy + 1 < Len(Strategies(p.cleanArtist, p.cleanAlbum))
  THEN CallStrategy(t, p, p.strategy + 2, token)
  ELSE Respond(p, NoMatch)

\* The for loop after a strategy returned null: the next strategy, or the
\* final return null.
AdvanceCascade(t, p, token) ==
  IF p.strategy < Len(Strategies(p.cleanArtist, p.cleanAlbum))
  THEN CallStrategy(t, p, p.strategy + 1, token)
  ELSE Respond(p, NoMatch)

\* A variant of StrategyReturned that does not return the match of the first
\* strategy.
StrategyReturned_IgnoresFirst(t, p, result, token) ==
  IF result # NoMatch /\ p.strategy > 1 THEN Respond(p, result)
  ELSE AdvanceCascade(t, p, token)

\* The body of the for loop once strategy() has returned result.
StrategyReturned(t, p, result, token) ==
  IF result # NoMatch THEN Respond(p, result)
  ELSE AdvanceCascade(t, p, token)

\* handleSpotifySearch after hasToken is true, up to the first strategy call.
BeginCascade(t, p, token) ==
  IF Falsy(p.md.artist) /\ Falsy(p.md.album)
  THEN Respond(p, NoMatch)
  ELSE CallStrategy(t,
         [p EXCEPT !.cleanArtist = Cleaned(p.md.artist),
                   !.cleanAlbum  = Cleaned(p.md.album)],
         1, token)

\* getClientCredentialsToken up to its fetch, with credentials present.
IssueExchange(t, p, ctx, cid, secret) ==
  [p    |-> [p EXCEPT !.pc = "token_wait", !.ctx = ctx, !.loggedOut = FALSE],
   send |-> {[task |-> t, kind |-> "token", cid |-> cid, secret |-> secret]}]

\* A task that has nothing left to do (initialize or the timer callback
\* returned or rejected).
Finish(p) == [p |-> [p EXCEPT !.pc = "done"], send |-> {}]

\* The replies of the GET_AUTH_STATUS, AUTHENTICATE and LOGOUT listeners.
NoError == "none"
StatusReply(isAuthenticated, isConfigured) ==
  [type |-> "status", isAuthenticated |-> isAuthenticated,
   isConfigured |-> isConfigured]
AuthReply(success, error) ==
  [type |-> "auth", success |-> success, error |-> error]
LogoutReply == [type |-> "logout", success |-> TRUE]

\* A variant of NeedsExchange that takes the one-minute margin a second time.
NeedsExchange_DoubleMargin(token, expiresAt, t) ==
  token = NoToken \/ t >= ToNumber(expiresAt) - 60000

\* A variant of NeedsExchange that keeps a token whatever the time.
NeedsExchange_IgnoresExpiry(token, expiresAt, t) ==
  token = NoToken

\* ensureValidToken's test for a new exchange.
NeedsExchange(token, expiresAt, t) ==
  token = NoToken \/ t >= ToNumber(expiresAt)

\* handleSpotifySearch from its call to the first await that suspends it.
SearchStarted(t, md, cid, secret, token, expiresAt, time) ==
  LET p == [FreshTask EXCEPT !.md = md, !.ensureAt = time]
  IN  IF ~(Truthy(cid) /\ Truthy(secret))
      THEN Respond([p EXCEPT !.ensure = "nocreds"], NoMatch)
      ELSE IF NeedsExchange(token, expiresAt, time)
      THEN IssueExchange(t, [p EXCEPT !.ensure = "exchange"], "ensure", cid, secret)
      ELSE BeginCascade(t, [p EXCEPT !.ensure = "cached"], token)

\* A variant of ExchangeSucceeded whose retry starts the cascade again.
ExchangeSucceeded_RestartsCascade(t, p, token) ==
  CASE p.ctx = "ensure" -> BeginCascade(t, [p EXCEPT !.ensure = "exchanged"], token)
    [] p.ctx = "retry"  -> CallStrategy(t, p, 1, token)
    [] p.ctx = "auth"   -> Respond(p, AuthReply(TRUE, NoError))
    [] OTHER            -> Finish(p)

\* What follows getClientCredentialsToken returning true, by caller:
\* ensureValidToken, the 401 branch of searchAlbums, the AUTHENTICATE
\* listener, or initialize and the timer callback.
ExchangeSucceeded(t, p, token) ==
  CASE p.ctx = "ensure" -> BeginCascade(t, [p EXCEPT !.ensure = "exchanged"], token)
    [] p.ctx = "retry"  -> IssueSearch(t, p, p.query, p.strategy, token)
    [] p.ctx = "auth"   -> Respond(p, AuthReply(TRUE, NoError))
    [] OTHER            -> Finish(p)

\* A variant of ExchangeFailed in which handleSpotifySearch swallows the
\* exception and searches without a token.
ExchangeFailed_SearchesAnyway(t, p, why, token) ==
  CASE p.ctx = "ensure" -> BeginCascade(t, [p EXCEPT !.ensure = why], token)
    [] p.ctx = "retry"  -> AdvanceCascade(t, p, token)
    [] p.ctx = "auth"   -> Respond(p, AuthReply(FALSE, why))
    [] OTHER            -> Finish(p)

\* What follows getClientCredentialsToken throwing, by caller: the
\* SEARCH_SPOTIFY listener's catch answers null; searchAlbums' catch returns
\* null to the loop; the AUTHENTICATE listener's catch answers the error.
ExchangeFailed(t, p, why, token) ==
  CASE p.ctx = "ensure" -> Respond([p EXCEPT !.ensure = why], NoMatch)
    [] p.ctx = "retry"  -> AdvanceCascade(t, p, token)
    [] p.ctx = "auth"   -> Respond(p, AuthReply(FALSE, why))
    [] OTHER            -> Finish(p)

\* searchAlbums after a 401, the token already cleared.
Unauthorized(t, p, cid, secret) ==
  IF Truthy(cid) /\ Truthy(secret)
  THEN IssueExchange(t, [p EXCEPT !.q401 = p.query], "retry", cid, secret)
  ELSE AdvanceCascade(t, [p EXCEPT !.q401 = p.query], NoToken)

\* searchAlbums after an answer with response.ok.
SearchAnswered(t, p, albums, token) ==
  StrategyReturned(t, p,
    IF albums = <<>> THEN NoMatch
    ELSE BestMatch(albums, p.cleanArtist, p.cleanAlbum),
    token)

\* Whether the ranker accepts an album of the catalog's answer a for the
\* search of task record p.
Accepted(p, a) ==
  /\ a.status = "ok"
  /\ a.albums # <<>>
  /\ BestMatch(a.albums, p.cleanArtist, p.cleanAlbum) # NoMatch

\* The task record once the answer a to its catalog request has arrived.
Answered(p, a) ==
  [p EXCEPT !.last = a, !.passed = p.passed \/ Accepted(p, p.last)]

\* ------------------------------------------------------------------------
\* Actions
\* ------------------------------------------------------------------------

Tasks == Searches \cup {"init", "status", "auth", "logout", "timer"}

\* A call of chrome.storage.local by a task: get by initialize and
\* loadCredentialsAndAuthenticate, set by getClientCredentialsToken, remove
\* by the LOGOUT listener. The calls of the service are served in the order
\* in which they were made.
StorageCall(t, op) == [task |-> t, op |-> op]

Served(t, op) ==
  storageCalls # <<>> /\ Head(storageCalls) = StorageCall(t, op)

\* No function is being evaluated on its own.
NoCall == [fn |-> "none", pc |-> "returned"]

\* No tab shows a Discogs page: no content script runs.
NoContentScript ==
  /\ script = [pc |-> "none"]
  /\ tab = [href |-> 0]

\* The module has been evaluated: every let holds null, initialize() awaits
\* chrome.storage.local.get, no message has arrived yet.
Init ==
  /\ env \in Runs
  /\ now = StartTime
  /\ clientId = Null
  /\ clientSecret = Null
  /\ accessToken = NoToken
  /\ tokenExpiresAt = NullNum
  /\ storage \in InitialStorages
  /\ task = [t \in Tasks |->
               IF t = "init" THEN [FreshTask EXCEPT !.pc = "load_wait", !.ctx = "init"]
               ELSE FreshTask]
  /\ net = {}
  /\ storageCalls = <<StorageCall("init", "get")>>
  /\ changed = <<>>
  /\ invalidated = {}
  /\ call = NoCall
  /\ NoContentScript

\* The browser stops the service worker, which is idle (no handler in
\* progress, no request, storage call or event under way), and an event
\* starts it anew: the module is evaluated again, chrome.storage.local
\* keeps what it held. The records of the handlers that have returned stay
\* as the history of what they answered.
Restart ==
  /\ "restart" \in env.events
  /\ \A t \in Tasks : task[t].pc \in {"idle", "done"}
  /\ net = {}
  /\ storageCalls = <<>>
  /\ changed = <<>>
  /\ env' = [env EXCEPT !.events = @ \ {"restart"}]
  /\ clientId' = Null
  /\ clientSecret' = Null
  /\ accessToken' = NoToken
  /\ tokenExpiresAt' = NullNum
  /\ task' = [task EXCEPT !["init"] =
                     [FreshTask EXCEPT !.pc = "load_wait", !.ctx = "init"]]
  /\ storageCalls' = <<StorageCall("init", "get")>>
  /\ UNCHANGED <<others, invalidated, now, storage, net, changed>>

\* A variant of Restorable that does not look at the stored expiry.
Restorable_AnyStored(stored, t) ==
  stored.spotifyToken # NoToken

\* initialize: stored.spotifyToken && stored.spotifyTokenExpires > Date.now()
Restorable(stored, t) ==
  stored.spotifyToken # NoToken /\ ToNumber(stored.spotifyTokenExpires) > t

\* The clock moves on between two steps.
Tick ==
  /\ \E t \in env.instants : t > now /\ now' = t
  /\ UNCHANGED <<others, invalidated, env, memory, storage, task, net, storageCalls, changed>>

\* initialize() after chrome.storage.local.get resolved.
InitLoaded ==
  /\ task["init"].pc = "load_wait"
  /\ Served("init", "get")
  /\ storageCalls' = Tail(storageCalls)
  /\ clientId' = storage.spotifyClientId
  /\ clientSecret' = storage.spotifyClientSecret
  /\ IF Restorable(storage, now)
     THEN /\ accessToken' = storage.spotifyToken
          /\ tokenExpiresAt' = storage.spotifyTokenExpires
          /\ task' = [task EXCEPT !["init"] = Finish(@).p]
          /\ net' = net
     ELSE /\ UNCHANGED <<accessToken, tokenExpiresAt>>
          /\ LET k == IF Truthy(clientId') /\ Truthy(clientSecret')
                      THEN IssueExchange("init", task["init"], "init",
                                         clientId', clientSecret')
                      ELSE Finish(task["init"])
             IN  /\ task' = [task EXCEPT !["init"] = k.p]
                 /\ net' = net \cup k.send
  /\ UNCHANGED <<others, invalidated, env, now, storage, changed>>

\* A SEARCH_SPOTIFY message arrives: the listener calls handleSpotifySearch.
StartSearch(t) ==
  /\ t \in env.searches
  /\ task[t].pc \in {"idle", "done"}
  /\ \E md \in env.pages :
       LET k == SearchStarted(t, md, clientId, clientSecret,
                              accessToken, tokenExpiresAt, now)
       IN  /\ task' = [task EXCEPT ![t] = k.p]
           /\ net' = net \cup k.send
  /\ UNCHANGED <<others, invalidated, env, now, memory, storage, storageCalls, changed>>

\* A variant of AuthStatus that does not look at the clock.
AuthStatus_IgnoresExpiry(cid, secret, token, expiresAt, t) ==
  StatusReply(Truthy(cid) /\ Truthy(secret) /\ token # NoToken,
              Truthy(cid) /\ Truthy(secret))

\* isConfigured and isAuthenticated of the GET_AUTH_STATUS listener.
AuthStatus(cid, secret, token, expiresAt, t) ==
  LET isConfigured == Truthy(cid) /\ Truthy(secret)
  IN  StatusReply(isConfigured /\ token # NoToken /\ t < ToNumber(expiresAt),
                  isConfigured)

\* A GET_AUTH_STATUS message arrives and is answered at once.
GetAuthStatus ==
  /\ "GET_AUTH_STATUS" \in env.events
  /\ task' = [task EXCEPT !["status"] =
                Respond(FreshTask, AuthStatus(clientId, clientSecret,
                                              accessToken, tokenExpiresAt, now)).p]
  /\ UNCHANGED <<others, invalidated, env, now, memory, storage, net, storageCalls, changed>>

\* An AUTHENTICATE message arrives: loadCredentialsAndAuthenticate awaits
\* chrome.storage.local.get.
Authenticate ==
  /\ "AUTHENTICATE" \in env.events
  /\ task["auth"].pc \in {"idle", "done"}
  /\ task' = [task EXCEPT !["auth"] =
                [FreshTask EXCEPT !.pc = "load_wait", !.ctx = "auth"]]
  /\ storageCalls' = Append(storageCalls, StorageCall("auth", "get"))
  /\ UNCHANGED <<others, invalidated, env, now, memory, storage, net, changed>>

\* A variant of CredentialsLoaded that starts the exchange whatever the
\* credentials.
CredentialsLoaded_NoCheck(t, p, cid, secret) ==
  IssueExchange(t, p, "auth", cid, secret)

\* loadCredentialsAndAuthenticate once the credentials are reloaded: it
\* throws when one is missing, else calls getClientCredentialsToken.
CredentialsLoaded(t, p, cid, secret) ==
  IF ~(Truthy(cid) /\ Truthy(secret))
  THEN Respond(p, AuthReply(FALSE, "Credentials not configured"))
  ELSE IssueExchange(t, p, "auth", cid, secret)

\* loadCredentialsAndAuthenticate after chrome.storage.local.get resolved.
AuthLoaded ==
  /\ task["auth"].pc = "load_wait"
  /\ Served("auth", "get")
  /\ storageCalls' = Tail(storageCalls)
  /\ clientId' = storage.spotifyClientId
  /\ clientSecret' = storage.spotifyClientSecret
  /\ LET k == CredentialsLoaded("auth", task["auth"], clientId', clientSecret')
     IN  /\ task' = [task EXCEPT !["auth"] = k.p]
         /\ net' = net \cup k.send
  /\ UNCHANGED <<others, invalidated, env, now, accessToken, tokenExpiresAt, storage, changed>>

\* A variant of LogoutKeys that removes the credentials as well.
LogoutKeys_WithCredentials ==
  {"spotifyToken", "spotifyTokenExpires", "spotifyClientId", "spotifyClientSecret"}

\* The keys the LOGOUT listener removes from storage.
LogoutKeys == {"spotifyToken", "spotifyTokenExpires"}

\* What reading a key that storage does not hold gives.
Absent(key) ==
  CASE key = "spotifyToken"        -> NoToken
    [] key = "spotifyTokenExpires" -> NullNum
    [] OTHER                       -> Null

\* A LOGOUT message arrives: the listener clears the token, calls
\* chrome.storage.local.remove without awaiting it, and answers. A new
\* LOGOUT waits for the remove of the previous one to be served.
Logout ==
  /\ "LOGOUT" \in env.events
  /\ \A i \in 1..Len(storageCalls) : storageCalls[i] # StorageCall("logout", "remove")
  /\ accessToken' = NoToken
  /\ tokenExpiresAt' = NullNum
  /\ storageCalls' = Append(storageCalls, StorageCall("logout", "remove"))
  /\ task' = [t \in Tasks |->
                IF t = "logout" THEN Respond(FreshTask, LogoutReply).p
                ELSE IF task[t].pc = "token_wait"
                THEN [task[t] EXCEPT !.loggedOut = TRUE]
                ELSE task[t]]
  /\ UNCHANGED <<others, invalidated, env, now, clientId, clientSecret, storage, net, changed>>

\* chrome.storage.local.remove of the LOGOUT listener is served.
RemoveDone ==
  /\ Served("logout", "remove")
  /\ storageCalls' = Tail(storageCalls)
  /\ storage' = [key \in DOMAIN storage |->
                   IF key \in LogoutKeys THEN Absent(key) ELSE storage[key]]
  /\ UNCHANGED <<others, invalidated, env, now, memory, task, net, changed>>

\* A variant of TimerFired that exchanges without a token in memory.
TimerFired_WithoutToken(t, p, cid, secret, token) ==
  IF Truthy(cid) /\ Truthy(secret)
  THEN IssueExchange(t, [p EXCEPT !.ensure = "exchange"], "timer", cid, secret)
  ELSE Finish([p EXCEPT !.ensure = "skipped"])

\* The setInterval callback: getClientCredentialsToken when the credentials
\* and a token are there, else nothing.
TimerFired(t, p, cid, secret, token) ==
  IF Truthy(cid) /\ Truthy(secret) /\ token # NoToken
  THEN IssueExchange(t, [p EXCEPT !.ensure = "exchange"], "timer", cid, secret)
  ELSE Finish([p EXCEPT !.ensure = "skipped"])

\* The renewal timer fires; the callback of the previous firing is over.
TimerFires ==
  /\ "timer" \in env.events
  /\ task["timer"].pc \in {"idle", "done"}
  /\ LET k == TimerFired("timer", FreshTask, clientId, clientSecret,
                         accessToken)
     IN  /\ task' = [task EXCEPT !["timer"] = k.p]
         /\ net' = net \cup k.send
  /\ UNCHANGED <<others, invalidated, env, now, memory, storage, storageCalls, changed>>

\* The stored credentials are saved anew or removed (by the user, outside
\* the service): an onChanged event with the keys whose values changed is on
\* its way to the service. One event is on its way at a time.
CredentialsSaved ==
  /\ "credentials" \in env.events
  /\ changed = <<>>
  /\ \E c \in SavedCredentials :
       /\ c # <<storage.spotifyClientId, storage.spotifyClientSecret>>
       /\ storage' = [storage EXCEPT !.spotifyClientId = c[1],
                                     !.spotifyClientSecret = c[2]]
       /\ changed' = Append(changed,
            [keys |-> {key \in {"spotifyClientId", "spotifyClientSecret"} :
                         storage'[key] # storage[key]},
             newValue |-> [spotifyClientId |-> c[1],
                           spotifyClientSecret |-> c[2]]])
  /\ UNCHANGED <<others, invalidated, env, now, memory, task, net, storageCalls>>

\* The chrome.storage.onChanged listener, for an event of area local with a
\* credential key: clears the token and takes the new values of the changed
\* keys.
onChanged ==
  /\ changed # <<>>
  /\ LET changes == Head(changed)
     IN  /\ accessToken' = NoToken
         /\ tokenExpiresAt' = NullNum
         /\ clientId' = IF "spotifyClientId" \in changes.keys
                        THEN changes.newValue.spotifyClientId ELSE clientId
         /\ clientSecret' = IF "spotifyClientSecret" \in changes.keys
                            THEN changes.newValue.spotifyClientSecret
                            ELSE clientSecret
  /\ changed' = Tail(changed)
  /\ invalidated' = invalidated \cup ({accessToken} \ {NoToken})
  /\ UNCHANGED <<others, env, now, storage, task, net, storageCalls>>

TokenRequestOf(t) == {r \in net : r.task = t /\ r.kind = "token"}
SearchRequestOf(t) == {r \in net : r.task = t /\ r.kind = "search"}

\* The token endpoint answers 200: getClientCredentialsToken caches the
\* token and awaits chrome.storage.local.set. The token is a new one, also
\* when its record equals that of a token invalidated before.
TokenOk(t) ==
  /\ task[t].pc = "token_wait"
  /\ "ok" \in env.exchanges
  /\ \E r \in TokenRequestOf(t) : \E e \in env.lifetimes :
       /\ accessToken' = IssuedToken(r.cid, r.secret, now, e)
       /\ tokenExpiresAt' = ExpiresAtOf(now, e)
       /\ task' = [task EXCEPT ![t] =
                     [@ EXCEPT !.pc = "store_wait",
                               !.pending = [spotifyToken |-> accessToken',
                                            spotifyTokenExpires |-> tokenExpiresAt']]]
       /\ net' = net \ {r}
  /\ storageCalls' = Append(storageCalls, StorageCall(t, "set"))
  /\ invalidated' = invalidated \ {accessToken'}
  /\ UNCHANGED <<others, env, now, clientId, clientSecret, storage, changed>>

\* A variant of TokenRejected in which the rejected exchange clears the
\* token in memory.
TokenRejected_ClearsToken(t) ==
  /\ task[t].pc = "token_wait"
  /\ "rejected" \in env.exchanges
  /\ accessToken' = NoToken
  /\ tokenExpiresAt' = NullNum
  /\ \E r \in TokenRequestOf(t) :
       LET k == ExchangeFailed(t, task[t], "rejected", NoToken)
       IN  /\ task' = [task EXCEPT ![t] = k.p]
           /\ net' = (net \ {r}) \cup k.send
  /\ UNCHANGED <<others, invalidated, env, now, clientId, clientSecret, storage, storageCalls, changed>>

\* The token endpoint answers with a status that is not ok:
\* getClientCredentialsToken throws.
TokenRejected(t) ==
  /\ task[t].pc = "token_wait"
  /\ "rejected" \in env.exchanges
  /\ \E r \in TokenRequestOf(t) :
       LET k == ExchangeFailed(t, task[t], "rejected", accessToken)
       IN  /\ task' = [task EXCEPT ![t] = k.p]
           /\ net' = (net \ {r}) \cup k.send
  /\ UNCHANGED <<others, invalidated, env, now, memory, storage, storageCalls, changed>>

\* The fetch of the token endpoint rejects: getClientCredentialsToken throws.
TokenFailed(t) ==
  /\ task[t].pc = "token_wait"
  /\ "failed" \in env.exchanges
  /\ \E r \in TokenRequestOf(t) :
       LET k == ExchangeFailed(t, task[t], "failed", accessToken)
       IN  /\ task' = [task EXCEPT ![t] = k.p]
           /\ net' = (net \ {r}) \cup k.send
  /\ UNCHANGED <<others, invalidated, env, now, memory, storage, storageCalls, changed>>

\* A variant of StorageSet that writes the token and not its expiry.
StorageSet_TokenOnly(stored, items) ==
  [stored EXCEPT !.spotifyToken = items.spotifyToken]

\* A variant of StorageSet that resolves without writing.
StorageSet_Unwritten(stored, items) == stored

\* The storage after chrome.storage.local.set(items) of
\* getClientCredentialsToken.
StorageSet(stored, items) ==
  [stored EXCEPT !.spotifyToken = items.spotifyToken,
                 !.spotifyTokenExpires = items.spotifyTokenExpires]

\* chrome.storage.local.set resolved: getClientCredentialsToken returns true.
StoreDone(t) ==
  /\ task[t].pc = "store_wait"
  /\ Served(t, "set")
  /\ storageCalls' = Tail(storageCalls)
  /\ storage' = StorageSet(storage, task[t].pending)
  /\ LET k == ExchangeSucceeded(t, task[t], accessToken)
     IN  /\ task' = [task EXCEPT ![t] = k.p]
         /\ net' = net \cup k.send
  /\ UNCHANGED <<others, invalidated, env, now, memory, changed>>

\* The catalog answers 200 with a result set.
SearchOk(t) ==
  /\ task[t].pc = "search_wait"
  /\ "ok" \in env.catalog
  /\ \E r \in SearchRequestOf(t) : \E albums \in env.results :
       LET p == Answered(task[t], [status |-> "ok", albums |-> albums])
           k == SearchAnswered(t, p, albums, accessToken)
       IN  /\ task' = [task EXCEPT ![t] = k.p]
           /\ net' = (net \ {r}) \cup k.send
  /\ UNCHANGED <<others, invalidated, env, now, memory, storage, storageCalls, changed>>

\* The catalog answers 401: searchAlbums clears the token and asks for a new
\* one.
Search401(t) ==
  /\ task[t].pc = "search_wait"
  /\ "unauthorized" \in env.catalog
  /\ accessToken' = NoToken
  /\ tokenExpiresAt' = NullNum
  /\ invalidated' = invalidated \cup ({accessToken} \ {NoToken})
  /\ \E r \in SearchRequestOf(t) :
       LET p == Answered(task[t], [status |-> "unauthorized", albums |-> <<>>])
           k == Unauthorized(t, p, clientId, clientSecret)
       IN  /\ task' = [task EXCEPT ![t] = k.p]
           /\ net' = (net \ {r}) \cup k.send
  /\ UNCHANGED <<others, env, now, clientId, clientSecret, storage, storageCalls, changed>>

\* The catalog answers with another status that is not ok.
SearchHttpError(t) ==
  /\ task[t].pc = "search_wait"
  /\ "error" \in env.catalog
  /\ \E r \in SearchRequestOf(t) :
       LET p == Answered(task[t], [status |-> "error", albums |-> <<>>])
           k == AdvanceCascade(t, p, accessToken)
       IN  /\ task' = [task EXCEPT ![t] = k.p]
           /\ net' = (net \ {r}) \cup k.send
  /\ UNCHANGED <<others, invalidated, env, now, memory, storage, storageCalls, changed>>

\* The fetch of the catalog rejects: the catch of searchAlbums returns null.
SearchFailed(t) ==
  /\ task[t].pc = "search_wait"
  /\ "failed" \in env.catalog
  /\ \E r \in SearchRequestOf(t) :
       LET p == Answered(task[t], [status |-> "failed", albums |-> <<>>])
           k == AdvanceCascade(t, p, accessToken)
       IN  /\ task' = [task EXCEPT ![t] = k.p]
           /\ net' = (net \ {r}) \cup k.send
  /\ UNCHANGED <<others, invalidated, env, now, memory, storage, storageCalls, changed>>

\* A request in flight completes, whatever the answer.
RequestCompletes(t) ==
  \/ TokenOk(t)
  \/ TokenRejected(t)
  \/ TokenFailed(t)
  \/ SearchOk(t)
  \/ Search401(t)
  \/ SearchHttpError(t)
  \/ SearchFailed(t)

Next ==
  \/ Tick
  \/ InitLoaded
  \/ Restart
  \/ \E t \in Searches : StartSearch(t)
  \/ GetAuthStatus
  \/ Authenticate
  \/ AuthLoaded
  \/ Logout
  \/ RemoveDone
  \/ TimerFires
  \/ CredentialsSaved
  \/ onChanged
  \/ \E t \in Tasks : RequestCompletes(t)
  \/ \E t \in Tasks : StoreDone(t)

Spec == Init /\ [][Next]_vars

\* Every request in flight is eventually answered, every storage call is
\* eventually served and every onChanged event eventually delivered; nothing
\* obliges a new message to arrive or the clock to move.
Fairness ==
  /\ WF_vars(InitLoaded)
  /\ WF_vars(AuthLoaded)
  /\ WF_vars(RemoveDone)
  /\ WF_vars(onChanged)
  /\ \A t \in Tasks : WF_vars(RequestCompletes(t))
  /\ \A t \in Tasks : WF_vars(StoreDone(t))

\* The runs checked for progress: those with one tab, from a storage that
\* holds the credentials and no token.
FairInit ==
  /\ Init
  /\ env \in {CascadeRun, TimerRun, PopupRun, CredentialsRun, RestartRun}
  /\ storage.spotifyClientSecret # Null
  /\ storage.spotifyToken = NoToken

FairSpec == FairInit /\ [][Next]_vars /\ Fairness

\* ------------------------------------------------------------------------
\* cleanSearchTerm, fuzzyMatch and findBestAlbumMatch evaluated on their own
\* ------------------------------------------------------------------------

\* The pieces the scraped terms are made of: a word, a Discogs
\* disambiguation number, an annotation in brackets, a parenthesized span
\* without and with one of the five words, and nothing (which leaves white
\* space at an end or two spaces in a row).
TermPieces ==
  {<<"A","b">>, <<"(","2",")">>, <<"[","L","P","]">>,
   <<"(","L","i","v","e",")">>, <<"(","B","o","n","u","s",")">>, <<>>}

\* The pieces of a list joined by single spaces.
RECURSIVE Joined(_)
Joined(pieces) ==
  IF Len(pieces) = 0 THEN <<>>
  ELSE IF Len(pieces) = 1 THEN pieces[1]
  ELSE pieces[1] \o <<" ">> \o Joined(Tail(pieces))

\* The most pieces in a term.
MaxPieces == 3

AbbeyRoad2 == <<"A","b","b","e","y"," ","R","o","a","d"," ","(","2",")">>
AlbumDeluxeEdition ==
  <<"A","l","b","u","m"," ","[","D","e","l","u","x","e"," ",
    "E","d","i","t","i","o","n","]">>

\* The terms cleanSearchTerm is called with.
Terms ==
  {Joined(l) : l \in UNION {[1..n -> TermPieces] : n \in 1..MaxPieces}}
    \cup {NullTerm, <<>>, AbbeyRoad2, AlbumDeluxeEdition}

Night == <<"n","i","g","h","t">>
Nite  == <<"n","i","t","e">>

\* The strings fuzzyMatch is called with.
Words ==
  {NullTerm, <<>>, <<"a">>, <<"b">>, <<"a","b">>, <<"b","a">>, <<"a","a">>,
   <<"a","a","a">>, <<"a","b","a","b">>, Night, Nite}

\* Catalog records whose name is the expected album's, holds it, is close to
\* it or is unrelated to it, with artists that are the expected one, close to
\* it, unrelated to it or a list that holds it, of every type (the last
\* stands for any other value), with fewer and with no fewer than eight
\* tracks.
Candidates ==
  {[id |-> "a9", uri |-> "spotify:album:a9", name |-> n, artists |-> a,
    album_type |-> ty, total_tracks |-> k] :
      n \in {Meddle, Meddle \o <<" ","L","i","v","e">>,
             <<"M","e","d","l","e">>, <<"X","y","z">>},
      a \in {<<PinkFloyd>>, <<<<"P","i","n","k"," ","F","l","o","i","d">>>>,
             <<<<"Q","r","s">>>>, <<<<"Q","r","s">>, PinkFloyd>>},
      ty \in {"album", "single", "compilation", "other"},
      k \in {2, 8}}

\* A record that differs from AlbMeddle in id and uri only.
AlbMeddleReissue ==
  [AlbMeddle EXCEPT !.id = "a3", !.uri = "spotify:album:a3"]

\* Records of which two have the greatest score, two a score less than 50
\* (a close name, an unrelated artist) and two the least score.
RankedPool ==
  {AlbMeddle, AlbMeddleReissue,
   AlbOther, [AlbOther EXCEPT !.id = "a4", !.uri = "spotify:album:a4"],
   [AlbOther EXCEPT !.id = "a5", !.uri = "spotify:album:a5",
                    !.name = <<"M","e","d","l","e">>],
   [AlbOther EXCEPT !.id = "a6", !.uri = "spotify:album:a6",
                    !.name = <<"M","e","d","l","e">>]}

\* The most records in a result set given to the ranker on its own.
MaxResults == 2

\* The result sets findBestAlbumMatch is called with.
CandidateLists ==
  {<<c>> : c \in Candidates}
    \cup UNION {[1..n -> RankedPool] : n \in 0..MaxResults}

\* The expected artist and album findBestAlbumMatch is called with.
Expected == {<<PinkFloyd, Meddle>>, <<<<>>, Meddle>>, <<PinkFloyd, <<>>>>}

\* The calls evaluated on their own.
Calls ==
  {[fn |-> "cleanSearchTerm", pc |-> "called", args |-> <<term>>] :
     term \in Terms}
  \cup
  {[fn |-> "fuzzyMatch", pc |-> "called", args |-> <<str1, str2>>] :
     str1 \in Words, str2 \in Words}
  \cup
  {[fn |-> "findBestAlbumMatch", pc |-> "called",
    args |-> <<albums, e[1], e[2]>>] :
     albums \in CandidateLists, e \in Expected}

\* The value of a call that has returned.
Returned(c, value) ==
  [fn |-> c.fn, pc |-> "returned", args |-> c.args, value |-> value]

cleanSearchTermReturns ==
  /\ call.fn = "cleanSearchTerm" /\ call.pc = "called"
  /\ call' = Returned(call, cleanSearchTerm(call.args[1]))
  /\ UNCHANGED <<service, script, tab>>

fuzzyMatchReturns ==
  /\ call.fn = "fuzzyMatch" /\ call.pc = "called"
  /\ call' = Returned(call, fuzzyMatch(call.args[1], call.args[2]))
  /\ UNCHANGED <<service, script, tab>>

\* findBestAlbumMatch returns; scores are the scores of the scored array
\* before it is sorted, in the order of the result set.
findBestAlbumMatchReturns ==
  /\ call.fn = "findBestAlbumMatch" /\ call.pc = "called"
  /\ LET albums == call.args[1]
         normalizedArtist == normalizeForComparison(call.args[2])
         normalizedAlbum  == normalizeForComparison(call.args[3])
     IN  call' = Returned(call,
           [best   |-> findBestAlbumMatch(albums, call.args[2], call.args[3]),
            scores |-> [i \in 1..Len(albums) |->
                          AlbumScore(albums[i], normalizedArtist,
                                     normalizedAlbum)]])
  /\ UNCHANGED <<service, script, tab>>

CallNext ==
  \/ cleanSearchTermReturns
  \/ fuzzyMatchReturns
  \/ findBestAlbumMatchReturns

\* The service worker at rest: nothing stored, no message, no request.
ServiceAtRest ==
  /\ env = TimerRun
  /\ now = StartTime
  /\ clientId = Null
  /\ clientSecret = Null
  /\ accessToken = NoToken
  /\ tokenExpiresAt = NullNum
  /\ storage = [spotifyClientId |-> Null, spotifyClientSecret |-> Null,
                spotifyToken |-> NoToken, spotifyTokenExpires |-> NullNum]
  /\ task = [t \in Tasks |-> FreshTask]
  /\ net = {}
  /\ storageCalls = <<>>
  /\ changed = <<>>
  /\ invalidated = {}

CallInit ==
  /\ ServiceAtRest
  /\ call \in Calls
  /\ NoContentScript

CallSpec == CallInit /\ [][CallNext]_vars

\* ---------------------------------------------------------------------
\* The content script (class Spotcogs) in one Discogs tab.
\*
\* tab.href counts the URLs the tab has shown, tab.enabled is the stored
\* 'enabled' setting, embed / release / meta say what the document of the
\* shown page holds (an Apple Music embed or audio section, a release or
\* master path, an artist and a title to extract), players and nomatch
\* count the elements the script has put into the document, origin holds
\* the URLs for which the searches that produced them were sent, and sent
\* counts the SEARCH_SPOTIFY requests sent since the URL last changed.
\* script.timers counts the pending setTimeout calls of processPage and
\* script.awaiting lists the searches whose response has not come.
\* ---------------------------------------------------------------------

MaxViews == 3

\* isEnabled as init computes it from the stored setting.
SettingEnabled_OnlyTrue(setting) == setting = "true"
SettingEnabled(setting) == setting # "false"

\* A variant of PlayerExists that never finds the container.
PlayerExists_Never(t) == FALSE

\* document.querySelector('.spotcogs-player-container')
PlayerExists(t) == t.players > 0

\* handleNavigation: forget the page, remove the players, process again.
handleNavigation(s) ==
  [s EXCEPT !.currentUrl = tab.href, !.processed = FALSE,
            !.processing = FALSE, !.timers = @ + 1]

\* The rest of init once getSettings has resolved.
SettingsLoaded ==
  /\ script.pc = "settings"
  /\ LET isEnabled == SettingEnabled(tab.enabled) IN
       script' = [script EXCEPT
                    !.settings = tab.enabled,
                    !.isEnabled = isEnabled,
                    !.pc = IF isEnabled THEN "observing" ELSE "returned",
                    !.timers = IF isEnabled THEN 1 ELSE 0]
  /\ UNCHANGED <<service, call, tab>>

\* A timer set by init, handleNavigation or the observer runs processPage.
processPage ==
  /\ script.pc = "observing"
  /\ script.timers > 0
  /\ LET s == [script EXCEPT !.timers = @ - 1] IN
       IF s.processed \/ s.processing THEN
         /\ script' = s
         /\ tab' = tab
       ELSE IF PlayerExists(tab) THEN
         /\ script' = [s EXCEPT !.processed = TRUE]
         /\ tab' = tab
       ELSE IF tab.embed \/ tab.release THEN
         \* replaceEmbed(embeds[0]) or addSpotifyPlayerToPage(): each
         \* returns before the search when the metadata is missing
         LET how == IF tab.embed THEN "replace" ELSE "add" IN
         /\ script' = [s EXCEPT
                         !.processing = TRUE,
                         !.processed = TRUE,
                         !.awaiting =
                           IF tab.meta
                           THEN Append(@, [href |-> tab.href, how |-> how])
                           ELSE @]
         /\ tab' = [tab EXCEPT !.sent = IF tab.meta THEN @ + 1 ELSE @]
       ELSE
         /\ script' = s
         /\ tab' = tab
  /\ UNCHANGED <<service, call>>

\* The page adds Apple Music content and the MutationObserver runs: it
\* sets a timer unless the page is processed or a player is there.
DomMutated ==
  /\ tab.href > 0
  /\ ~tab.embed
  /\ tab' = [tab EXCEPT !.embed = TRUE]
  /\ script' =
       IF /\ script.pc = "observing"
          /\ ~(script.processed \/ script.processing)
          /\ ~PlayerExists(tab)
       THEN [script EXCEPT !.timers = @ + 1]
       ELSE script
  /\ UNCHANGED <<service, call>>

\* The site shows another page without loading a document: by pushState,
\* which no listener sees, or by a history step, whose popstate event
\* runs handleNavigation at once.
Navigated ==
  /\ tab.href > 0
  /\ tab.href < MaxViews
  /\ \E popstate, embed, release, meta \in BOOLEAN :
       LET handled == popstate /\ script.pc = "observing" IN
       /\ tab' = [tab EXCEPT
                    !.href = @ + 1, !.embed = embed, !.release = release,
                    !.meta = meta, !.sent = 0,
                    !.players = IF handled THEN 0 ELSE @,
                    !.nomatch = IF handled THEN 0 ELSE @,
                    !.origin = IF handled THEN {} ELSE @]
       /\ script' = IF handled
                    THEN [handleNavigation(script) EXCEPT
                            !.currentUrl = tab.href + 1]
                    ELSE script
  /\ UNCHANGED <<service, call>>

\* A tick of the 500 ms interval of observeUrlChanges.
UrlPolled ==
  /\ script.pc = "observing"
  /\ tab.href # script.currentUrl
  /\ script' = handleNavigation(script)
  /\ tab' = [tab EXCEPT !.players = 0, !.nomatch = 0, !.origin = {}]
  /\ UNCHANGED <<service, call>>

\* The response to a search arrives: replaceEmbed or
\* addSpotifyPlayerToPage goes on.  The embed the search was sent for may
\* have left the document since (replaceChild then throws into the catch
\* of replaceEmbed), and findInsertLocation may find no place.
SearchResponded ==
  /\ script.pc = "observing"
  /\ \E i \in 1..Len(script.awaiting), match, inDocument \in BOOLEAN :
       LET search == script.awaiting[i]
           attached == IF search.href = tab.href THEN tab.embed
                       ELSE inDocument
           player == /\ match
                     /\ ~PlayerExists(tab)
                     /\ IF search.how = "replace" THEN attached
                        ELSE inDocument
           message == search.how = "replace" /\ ~match /\ attached
       IN
       /\ script' = [script EXCEPT
                       !.awaiting = [j \in 1..(Len(@) - 1) |->
                                       IF j < i THEN @[j] ELSE @[j + 1]]]
       /\ tab' = [tab EXCEPT
                    !.players = IF player THEN @ + 1 ELSE @,
                    !.nomatch = IF message THEN @ + 1 ELSE @,
                    !.origin = IF player \/ message
                               THEN @ \cup {search.href} ELSE @,
                    !.embed = IF (player \/ message)
                                 /\ search.how = "replace"
                                 /\ search.href = tab.href
                              THEN FALSE ELSE @]
  /\ UNCHANGED <<service, call>>

\* handleToggleChange of the popup stores the setting; the content script
\* has no listener for the SETTINGS_CHANGED message that follows.
ToggleChanged ==
  /\ tab.href > 0
  /\ \E enabled \in {"true", "false"} :
       /\ enabled # tab.enabled
       /\ tab' = [tab EXCEPT !.enabled = enabled]
  /\ UNCHANGED <<service, call, script>>

ContentNext ==
  \/ SettingsLoaded
  \/ processPage
  \/ DomMutated
  \/ Navigated
  \/ UrlPolled
  \/ SearchResponded
  \/ ToggleChanged

\* The constructor has run and init waits for getSettings.
ContentInit ==
  /\ ServiceAtRest
  /\ call = NoCall
  /\ \E enabled \in {"true", "false", "unset"},
        embed, release, meta \in BOOLEAN :
       tab = [href |-> 1, enabled |-> enabled, embed |-> embed,
              release |-> release, meta |-> meta,
              players |-> 0, nomatch |-> 0, origin |-> {}, sent |-> 0]
  /\ script = [pc |-> "settings", settings |-> "unset", isEnabled |-> TRUE,
               processed |-> FALSE, processing |-> FALSE, currentUrl |-> 1,
               timers |-> 0, awaiting |-> <<>>]

ContentSpec == ContentInit /\ [][ContentNext]_vars

\* ---------------------------------------------------------------------
\* The OAuth-interactive variant of the service worker (part_004, lines
\* 1-300). Its accessToken and tokenExpiresAt are the variables of the
\* same names; storage stands for chrome.storage.sync, of which it uses
\* the keys spotifyToken and spotifyTokenExpires; it has no client
\* credentials. A token gets into storage by an earlier authentication.
\* ---------------------------------------------------------------------

\* The variant's module has been evaluated: its chrome.storage.sync.get is
\* under way, no message has arrived yet.
OAuthInit ==
  /\ env = TokenRun
  /\ now = StartTime
  /\ clientId = Null
  /\ clientSecret = Null
  /\ accessToken = NoToken
  /\ tokenExpiresAt = NullNum
  /\ \E s \in InitialStorages :
       storage = [s EXCEPT !.spotifyClientId = Null,
                           !.spotifyClientSecret = Null]
  /\ task = [t \in Tasks |->
               IF t = "init" THEN [FreshTask EXCEPT !.pc = "load_wait", !.ctx = "init"]
               ELSE FreshTask]
  /\ net = {}
  /\ storageCalls = <<StorageCall("init", "get")>>
  /\ changed = <<>>
  /\ invalidated = {}
  /\ call = NoCall
  /\ NoContentScript

\* The callback of chrome.storage.sync.get: the stored token is restored
\* if its stored expiry is later than the clock.
OAuthRestored ==
  /\ task["init"].pc = "load_wait"
  /\ Served("init", "get")
  /\ storageCalls' = Tail(storageCalls)
  /\ IF storage.spotifyToken # NoToken /\ ToNumber(storage.spotifyTokenExpires) > now
     THEN /\ accessToken' = storage.spotifyToken
          /\ tokenExpiresAt' = storage.spotifyTokenExpires
     ELSE UNCHANGED <<accessToken, tokenExpiresAt>>
  /\ task' = [task EXCEPT !["init"] = Finish(@).p]
  /\ UNCHANGED <<others, invalidated, env, now, clientId, clientSecret, storage, net, changed>>

\* A SEARCH_SPOTIFY message arrives: handleSpotifySearch up to its first
\* await, the fetch of searchSpotifyWithoutAuth when there is no token or
\* the clock has reached its expiry, else the fetch of the catalog.
handleSpotifySearch(t) ==
  /\ t \in env.searches
  /\ task[t].pc \in {"idle", "done"}
  /\ \E md \in env.pages :
       LET p == [FreshTask EXCEPT !.md = md, !.ensureAt = now]
       IN  IF accessToken = NoToken \/ now >= ToNumber(tokenExpiresAt)
           THEN /\ task' = [task EXCEPT ![t] = [p EXCEPT !.pc = "oembed_wait"]]
                /\ net' = net \cup {[task |-> t, kind |-> "oembed"]}
           ELSE /\ task' = [task EXCEPT ![t] =
                              [p EXCEPT !.pc = "search_wait", !.issued = TRUE]]
                /\ net' = net \cup {[task |-> t, kind |-> "search",
                                     bearer |-> accessToken]}
  /\ UNCHANGED <<others, invalidated, env, now, memory, storage, storageCalls, changed>>

\* The catalog answers the fetch of handleSpotifySearch. With 200,
\* findBestMatch returns null or the object of a record of the answer;
\* with 401 the token is cleared, chrome.storage.sync.remove is called
\* without awaiting it and searchSpotifyWithoutAuth sends its fetch; with
\* another status, or a rejected fetch, the catch returns null.
OAuthCatalogAnswers(t) ==
  /\ task[t].pc = "search_wait"
  /\ \E r \in SearchRequestOf(t) : \E status \in env.catalog :
       LET p == [task[t] EXCEPT !.last = [status |-> status, albums |-> <<>>]]
       IN  CASE status = "ok" ->
                  /\ \E albums \in env.results :
                       \E best \in {NoMatch} \cup
                                   {MatchOf(albums[i]) : i \in 1..Len(albums)} :
                         task' = [task EXCEPT ![t] = Respond(p, best).p]
                  /\ net' = net \ {r}
                  /\ UNCHANGED <<accessToken, tokenExpiresAt, storageCalls>>
             [] status = "unauthorized" ->
                  /\ accessToken' = NoToken
                  /\ tokenExpiresAt' = NullNum
                  /\ storageCalls' = Append(storageCalls, StorageCall(t, "remove"))
                  /\ task' = [task EXCEPT ![t] = [p EXCEPT !.pc = "oembed_wait"]]
                  /\ net' = (net \ {r}) \cup {[task |-> t, kind |-> "oembed"]}
             [] OTHER ->
                  /\ task' = [task EXCEPT ![t] = Respond(p, NoMatch).p]
                  /\ net' = net \ {r}
                  /\ UNCHANGED <<accessToken, tokenExpiresAt, storageCalls>>
  /\ UNCHANGED <<others, invalidated, env, now, clientId, clientSecret, storage, changed>>

\* A variant of searchSpotifyWithoutAuth that returns a record when the
\* oEmbed endpoint answers.
searchSpotifyWithoutAuth_FindsMatch(t) ==
  /\ task[t].pc = "oembed_wait"
  /\ \E r \in net :
       /\ r.task = t /\ r.kind = "oembed"
       /\ net' = net \ {r}
  /\ task' = [task EXCEPT ![t] = Respond(@, MatchOf(AlbMeddle)).p]
  /\ UNCHANGED <<others, invalidated, env, now, memory, storage, storageCalls, changed>>

\* The oEmbed endpoint answers, or the fetch rejects:
\* searchSpotifyWithoutAuth returns null whichever it is.
searchSpotifyWithoutAuth(t) ==
  /\ task[t].pc = "oembed_wait"
  /\ \E r \in net :
       /\ r.task = t /\ r.kind = "oembed"
       /\ net' = net \ {r}
  /\ task' = [task EXCEPT ![t] = Respond(@, NoMatch).p]
  /\ UNCHANGED <<others, invalidated, env, now, memory, storage, storageCalls, changed>>

\* chrome.storage.sync.remove of the 401 branch is served.
OAuthRemoveDone ==
  /\ \E t \in Searches : Served(t, "remove")
  /\ storageCalls' = Tail(storageCalls)
  /\ storage' = [key \in DOMAIN storage |->
                   IF key \in {"spotifyToken", "spotifyTokenExpires"}
                   THEN Absent(key) ELSE storage[key]]
  /\ UNCHANGED <<others, invalidated, env, now, memory, task, net, changed>>

OAuthNext ==
  \/ Tick
  \/ OAuthRestored
  \/ \E t \in Searches : handleSpotifySearch(t)
  \/ \E t \in Searches : OAuthCatalogAnswers(t)
  \/ \E t \in Searches : searchSpotifyWithoutAuth(t)
  \/ OAuthRemoveDone

OAuthSpec == OAuthInit /\ [][OAuthNext]_vars

\* ------------------------------------------------------------------------
\* Properties
\* ------------------------------------------------------------------------

\* The search requests a step sends for task t.
SentSearches(t) == {r \in net' \ net : r.task = t /\ r.kind = "search"}

\* Whether the step is the arrival of a SEARCH_SPOTIFY message at task t.
Arrives(t) == task[t].pc \in {"idle", "done"} /\ task'[t] # task[t]

\* C1: within one search a catalog call answered 401 is retried once and the
\* retried call is never retried itself: no strategy sends more than two
\* requests (the call and its one retry).
C1_RetriedAtMostOnce ==
  \A t \in Searches : task[t].attempts <= 2

\* C2: every catalog request is sent with a token whose cached expiresAt is
\* strictly later than the time at which the request is sent.
C2_RequestsCarryUnexpiredToken ==
  [][\A t \in Searches : \A r \in SentSearches(t) :
       /\ r.bearer # NoToken
       /\ accessToken' # NoToken
       /\ now' < ToNumber(tokenExpiresAt')]_vars

\* C3: every SEARCH_SPOTIFY request is eventually answered, exactly once,
\* when every request in flight eventually completes.
C3_EverySearchAnswered ==
  \A t \in Searches :
    [](task[t].pc \notin {"idle", "done"}
         => <>(task[t].pc = "done" /\ task[t].responses = 1))

\* C4: the strategies are called in list order, one at a time, and once a
\* strategy's answer holds an accepted match the search is over with no
\* further request: at most one catalog request of a search is in flight, it
\* is the one of the current strategy, a new request is the first strategy's
\* at the start, the next strategy's after an answer, or the same strategy's
\* after a 401; and an accepted answer ends the search with nothing in flight.
C4_InOrderOneAtATime ==
  /\ [](\A t \in Searches :
          /\ Cardinality(SearchRequestOf(t)) <= 1
          /\ \A r \in SearchRequestOf(t) :
               task[t].pc = "search_wait" /\ r.strategy = task[t].strategy
          /\ Accepted(task[t], task[t].last)
               => task[t].pc = "done" /\ {r \in net : r.task = t} = {})
  /\ [][\A t \in Searches : \A r \in SentSearches(t) :
          /\ SearchRequestOf(t) \cap net' = {}
          /\ SentSearches(t) = {r}
          /\ \/ r.strategy = 1 /\ (Arrives(t) \/ task[t].strategy = 0)
             \/ /\ ~Arrives(t)
                /\ r.strategy = task[t].strategy + 1
                /\ ~Accepted(task'[t], task'[t].last)
             \/ /\ ~Arrives(t)
                /\ r.strategy = task[t].strategy
                /\ task[t].last.status = "unauthorized"]_vars

\* A search found its match with the second strategy or a later one.
C4_Witness ==
  \E t \in Searches :
    /\ task[t].pc = "done"
    /\ task[t].result # NoMatch
    /\ task[t].strategy >= 2
    /\ task[t].strategy < Len(Strategies(<<>>, <<>>))

\* Whether the search of task record p had a valid token and a search term.
Searchable(p) ==
  /\ p.ensure \in {"cached", "exchanged"}
  /\ ~(Falsy(p.md.artist) /\ Falsy(p.md.album))

\* C5: with a valid token and a search term, the search returns the ranker's
\* match for the first answer that holds an accepted match (no earlier
\* answer held one), and returns null exactly when no answer held one, every
\* strategy having been called.
C5_FirstAcceptedMatchWins ==
  \A t \in Searches :
    LET p == task[t]
    IN  (p.pc = "done" /\ Searchable(p)) =>
          /\ ~p.passed
          /\ p.issued
          /\ IF Accepted(p, p.last)
             THEN p.result = findBestAlbumMatch(p.last.albums,
                                                p.cleanArtist, p.cleanAlbum)
             ELSE /\ p.result = NoMatch
                  /\ p.strategy = Len(Strategies(p.cleanArtist, p.cleanAlbum))

\* A search returned the match of its third strategy.
C5_Witness ==
  \E t \in Searches :
    /\ task[t].pc = "done"
    /\ Searchable(task[t])
    /\ task[t].strategy = 3
    /\ task[t].result = MatchOf(AlbMeddle)

\* C6: after a 401 and a successful re-exchange the retried request carries
\* the query of the request that was answered 401, for the same strategy,
\* and within a search the cascade never goes back to an earlier strategy.
C6_RetrySameQueryNoRestart ==
  /\ [](\A t \in Searches : \A r \in SearchRequestOf(t) :
          task[t].attempts >= 2 =>
            /\ r.query = task[t].q401
            /\ r.query = Strategies(task[t].cleanArtist,
                                    task[t].cleanAlbum)[task[t].strategy]
            /\ task[t].last.status = "unauthorized")
  /\ [][\A t \in Searches :
          ~Arrives(t) => task'[t].strategy >= task[t].strategy]_vars

\* The retry of the second strategy is in flight with a new token.
C6_Witness ==
  \E t \in Searches : \E r \in SearchRequestOf(t) :
    /\ task[t].strategy = 2
    /\ task[t].attempts = 2
    /\ r.bearer # NoToken
    /\ r.bearer = accessToken

\* C7: when no valid token can be produced at the start of a search (no
\* credentials, or the exchange is rejected or fails), the search answers
\* null and sends no catalog request.
C7_NoTokenNoSearch ==
  \A t \in Searches :
    task[t].ensure \in {"nocreds", "rejected", "failed"} =>
      /\ task[t].pc = "done"
      /\ task[t].result = NoMatch
      /\ task[t].responses = 1
      /\ ~task[t].issued
      /\ SearchRequestOf(t) = {}

\* The exchange at the start of a search for a page with both fields was
\* rejected.
C7_Witness ==
  \E t \in Searches :
    /\ task[t].ensure = "rejected"
    /\ task[t].md = MdPlain
    /\ Truthy(clientId) /\ Truthy(clientSecret)

\* C8: when artist and album both clean to the empty string the search
\* answers null and sends no catalog request.
C8_EmptyTermsNoSearch ==
  \A t \in Searches :
    (cleanSearchTerm(task[t].md.artist) = <<>>
       /\ cleanSearchTerm(task[t].md.album) = <<>>) =>
      /\ ~task[t].issued
      /\ task[t].pc = "done" => task[t].result = NoMatch

\* C9: after an exchange answered at time T with lifetime expires_in the
\* cached expiresAt is T + expires_in*1000 - 60000 (T + 3540000 for 3600),
\* in memory and in the values handed to storage.
C9_ExpiresAtFormula ==
  /\ accessToken # NoToken =>
       /\ tokenExpiresAt = accessToken.iat + accessToken.expires_in * 1000 - 60000
       /\ accessToken.expires_in = 3600 =>
            tokenExpiresAt = accessToken.iat + 3600000 - 60000
  /\ \A t \in Tasks :
       task[t].pc = "store_wait" =>
         task[t].pending.spotifyTokenExpires =
           task[t].pending.spotifyToken.iat
             + task[t].pending.spotifyToken.expires_in * 1000 - 60000

\* An exchange has just succeeded at a later instant with lifetime 3600.
C9_Witness ==
  \E t \in Tasks :
    /\ task[t].pc = "store_wait"
    /\ accessToken = task[t].pending.spotifyToken
    /\ accessToken.iat = now
    /\ now > StartTime
    /\ accessToken.expires_in = 3600
    /\ tokenExpiresAt = now + 3540000

\* Whether the credentials are present and the token of an exchange with
\* lifetime 3600 is cached.
CachedToken3600 ==
  /\ Truthy(clientId) /\ Truthy(clientSecret)
  /\ accessToken # NoToken
  /\ accessToken.expires_in = 3600
  /\ tokenExpiresAt = accessToken.iat + 3600000 - 60000

\* Whether the step answers the token request of task t from the cache.
ServedFromCache(t) ==
  /\ task'[t].ensure = "cached"
  /\ {r \in net' \ net : r.kind = "token"} = {}
  /\ accessToken' = accessToken
  /\ tokenExpiresAt' = tokenExpiresAt

\* C10 as stated: a token request made 3599000 ms after an exchange with
\* lifetime 3600 returns the cached token and starts no exchange.
C10_CachedAt3599000 ==
  [][\A t \in Searches :
       (Arrives(t) /\ CachedToken3600 /\ now = accessToken.iat + 3599000)
         => ServedFromCache(t)]_vars

\* C10 amended: a token request made less than 3540000 ms after an exchange
\* with lifetime 3600 returns the cached token and starts no exchange.
C10_CachedBeforeExpiresAt ==
  [][\A t \in Searches :
       (Arrives(t) /\ CachedToken3600 /\ now < accessToken.iat + 3540000)
         => ServedFromCache(t)]_vars

\* A search was served from the cache 3539999 ms after the exchange.
C10_Witness ==
  \E t \in Searches :
    /\ task[t].ensure = "cached"
    /\ accessToken # NoToken
    /\ accessToken.expires_in = 3600
    /\ accessToken.iat = StartTime
    /\ task[t].ensureAt = StartTime + 3539999

\* The token requests a step sends.
SentExchanges == {r \in net' \ net : r.kind = "token"}

\* C11: with credentials configured, a token request (the ensureValidToken
\* call at the start of a search) sends exactly one exchange, its own, when
\* the token is absent or the time is at or past expiresAt, and otherwise
\* sends none and leaves memory, storage and the pending storage calls as
\* they are; no later step of the search sends an exchange for that token
\* request.
C11_OneExchangeWhenStale ==
  [][\A t \in Searches :
       /\ (Arrives(t) /\ Truthy(clientId) /\ Truthy(clientSecret)) =>
            IF accessToken = NoToken \/ now >= tokenExpiresAt
            THEN /\ Cardinality(SentExchanges) = 1
                 /\ \A r \in SentExchanges :
                      r.task = t /\ task'[t].ctx = "ensure"
            ELSE /\ SentExchanges = {}
                 /\ memory' = memory
                 /\ storage' = storage
                 /\ storageCalls' = storageCalls
       /\ \A r \in SentExchanges :
            (r.task = t /\ task'[t].ctx = "ensure") => Arrives(t)]_vars

\* A search has started 3600001 ms after the exchange of a token of
\* lifetime 3600 and its exchange is in flight.
C11_Witness ==
  \E t \in Searches :
    /\ task[t].pc = "token_wait"
    /\ task[t].ctx = "ensure"
    /\ task[t].ensureAt = StartTime + 3600001
    /\ accessToken.iat = StartTime
    /\ accessToken.expires_in = 3600
    /\ TokenRequestOf(t) # {}

\* Whether both tabs' searches have had their token exchange succeed.
BothExchanged == \A t \in Searches : task[t].ensure = "exchanged"

\* Whether no token exchange is under way: no token request in flight and
\* no storage call pending.
NoExchangeUnderWay ==
  storageCalls = <<>> /\ \A r \in net : r.kind # "token"

LogsOut ==
  storageCalls' = Append(storageCalls, StorageCall("logout", "remove"))

\* C13: handling a LOGOUT leaves no token in memory, and a token exchange
\* that was in flight when a LOGOUT was handled does not install its token
\* afterwards: the token stays absent until an exchange started after the
\* logout succeeds.
C13_LogoutKeepsTokenAbsent ==
  /\ [][LogsOut => accessToken' = NoToken /\ tokenExpiresAt' = NullNum]_vars
  /\ [](\A t \in Tasks :
          task[t].loggedOut =>
            ~(/\ task[t].pc = "store_wait"
              /\ accessToken # NoToken
              /\ accessToken = task[t].pending.spotifyToken))

\* Whether the step is the onChanged listener observing a change of the
\* stored credentials.
Observes == changed # <<>> /\ changed' = Tail(changed)

\* Whether token was obtained with the credentials cid and secret.
ObtainedWith(token, cid, secret) ==
  token.cid = cid /\ token.secret = secret

\* C14: observing a change of the stored credentials (the service having
\* loaded them at its start) leaves no token in memory and the credentials
\* in memory equal to the stored ones; and once
\* every change has been observed, a token cached in memory was obtained
\* with the credentials in memory, and so was the token of every catalog
\* request that is sent.
C14_NoTokenOfPreviousCredentials ==
  /\ [][(Observes /\ changed' = <<>> /\ task["init"].pc # "load_wait") =>
          /\ accessToken' = NoToken
          /\ clientId' = storage.spotifyClientId
          /\ clientSecret' = storage.spotifyClientSecret]_vars
  /\ [](changed = <<>> /\ accessToken # NoToken =>
          ObtainedWith(accessToken, clientId, clientSecret))
  /\ [][\A t \in Searches : \A r \in SentSearches(t) :
          (changed = <<>> /\ r.bearer # NoToken) =>
            ObtainedWith(r.bearer, clientId, clientSecret)]_vars

\* C15: no step of the service changes the stored client id or client
\* secret: they change only when they are saved from outside the service
\* (the step that puts an onChanged event on its way).
C15_StoredCredentialsUntouched ==
  [][Len(changed') <= Len(changed) =>
       /\ storage'.spotifyClientId = storage.spotifyClientId
       /\ storage'.spotifyClientSecret = storage.spotifyClientSecret]_vars

\* The popup connected and then disconnected: the exchange's token was
\* stored and removed again, and the credentials are still stored.
C15_Witness ==
  /\ task["auth"].result = AuthReply(TRUE, NoError)
  /\ task["logout"].result = LogoutReply
  /\ storageCalls = <<>>
  /\ storage.spotifyToken = NoToken
  /\ storage.spotifyClientId = "id1"
  /\ storage.spotifyClientSecret = "secret1"

\* Whether the step is a firing of the renewal timer.
Fires ==
  task["timer"].pc \in {"idle", "done"} /\ task'["timer"] # task["timer"]

\* C16: a firing of the renewal timer sends one token request, with the
\* credentials in memory, when both credentials and a token are in memory,
\* and otherwise sends nothing and changes nothing; the timer's callback
\* sends a token request at no other step.
C16_TimerRenewsOnlyWithToken ==
  [][/\ Fires =>
          /\ memory' = memory /\ storage' = storage
          /\ storageCalls' = storageCalls /\ changed' = changed
          /\ IF Truthy(clientId) /\ Truthy(clientSecret) /\ accessToken # NoToken
             THEN /\ net' = net \cup SentExchanges
                  /\ Cardinality(SentExchanges) = 1
                  /\ \A r \in SentExchanges :
                       /\ r.task = "timer"
                       /\ r.cid = clientId /\ r.secret = clientSecret
             ELSE net' = net
     /\ \A r \in SentExchanges : r.task = "timer" => Fires]_vars

\* The timer fired with a token in memory and its exchange has renewed the
\* token, in memory and in storage.
C16_Witness ==
  /\ task["timer"].pc = "done"
  /\ task["timer"].ensure = "exchange"
  /\ task["timer"].pending.spotifyToken = accessToken
  /\ accessToken # NoToken
  /\ accessToken.iat > StartTime
  /\ storage.spotifyToken = accessToken

\* Whether nothing is in flight: every handler and callback has returned,
\* no request is in flight, no storage call is pending and no onChanged
\* event is on its way.
Quiescent ==
  /\ \A t \in Tasks : task[t].pc \in {"idle", "done"}
  /\ net = {}
  /\ storageCalls = <<>>
  /\ changed = <<>>

\* Whether nothing but task t is in flight.
OthersAtRest(t) ==
  /\ \A u \in Tasks \ {t} : task[u].pc \in {"idle", "done"}
  /\ \A r \in net : r.task = t
  /\ \A i \in 1..Len(storageCalls) : storageCalls[i].task = t
  /\ changed = <<>>

\* Whether the step is getClientCredentialsToken of task t returning true.
Completes(t) == task[t].pc = "store_wait" /\ task'[t].pc # "store_wait"

C18_AuthStatusReply ==
  [][task'["status"] # task["status"] =>
       LET reply == task'["status"].result
       IN  /\ reply.type = "status"
           /\ task'["status"].responses = 1
           /\ reply.isConfigured <=> (Truthy(clientId) /\ Truthy(clientSecret))
           /\ reply.isAuthenticated <=>
                (/\ Truthy(clientId) /\ Truthy(clientSecret)
                 /\ accessToken # NoToken
                 /\ now < tokenExpiresAt)
           /\ reply.isAuthenticated => reply.isConfigured
           /\ memory' = memory /\ storage' = storage /\ net' = net
           /\ storageCalls' = storageCalls /\ changed' = changed]_vars

\* The popup was told that the service is configured and not authenticated
\* while an expired token was in memory.
C18_Witness ==
  /\ task["status"].result = StatusReply(FALSE, TRUE)
  /\ accessToken # NoToken
  /\ now >= tokenExpiresAt
  /\ Truthy(clientId) /\ Truthy(clientSecret)

\* C19: AUTHENTICATE takes the credentials from storage; with one of them
\* absent it replies {success: false, error} and sends no token request,
\* and with both it sends one token request carrying them; when the
\* exchange does not succeed it replies {success: false, error}; and it
\* replies {success: true} only at the step at which the storage write of
\* the exchanged token and its expiry resolves, both having been cached.
C19_AuthenticateReplies ==
  [][LET p == task["auth"]
         q == task'["auth"]
     IN
     /\ (p.pc = "load_wait" /\ q.pc # "load_wait") =>
          /\ clientId' = storage.spotifyClientId
          /\ clientSecret' = storage.spotifyClientSecret
          /\ IF Truthy(storage.spotifyClientId) /\ Truthy(storage.spotifyClientSecret)
             THEN /\ q.pc = "token_wait"
                  /\ SentExchanges =
                       {[task |-> "auth", kind |-> "token",
                         cid |-> storage.spotifyClientId,
                         secret |-> storage.spotifyClientSecret]}
             ELSE /\ SentExchanges = {}
                  /\ q.pc = "done" /\ q.responses = 1
                  /\ q.result.type = "auth"
                  /\ ~q.result.success /\ q.result.error # NoError
     /\ (p.pc = "token_wait" /\ q.pc \notin {"token_wait", "store_wait"}) =>
          /\ q.pc = "done" /\ q.responses = 1
          /\ q.result.type = "auth"
          /\ ~q.result.success /\ q.result.error # NoError
     /\ (q.pc = "done" /\ q.result = AuthReply(TRUE, NoError) /\ q # p) =>
          /\ p.pc = "store_wait" /\ q.responses = 1
          /\ p.pending.spotifyToken # NoToken
          /\ p.pending.spotifyTokenExpires # NullNum
          /\ storage'.spotifyToken = p.pending.spotifyToken
          /\ storage'.spotifyTokenExpires = p.pending.spotifyTokenExpires]_vars

\* AUTHENTICATE picked up credentials that were saved after the service
\* had started, and replied success once their token was stored.
C19_Witness ==
  /\ task["auth"].pc = "done"
  /\ task["auth"].result = AuthReply(TRUE, NoError)
  /\ clientId = "id2"
  /\ accessToken = task["auth"].pending.spotifyToken
  /\ accessToken.cid = "id2"
  /\ storage.spotifyToken = accessToken

\* Whether the step is the catalog request of task t failing at the
\* transport level.
TransportFails(t) ==
  /\ task[t].pc = "search_wait"
  /\ task'[t] # task[t]
  /\ task'[t].last.status = "failed"

\* C20: when a catalog request of a search fails at the transport level,
\* the request is not sent again and the search is answered null, with no
\* further catalog request.
C20_TransportFailureEndsSearch ==
  [][\A t \in Searches :
       TransportFails(t) =>
         /\ \A r \in SentSearches(t) : r.query # task[t].query
         /\ SentSearches(t) = {}
         /\ task'[t].pc = "done"
         /\ task'[t].result = NoMatch]_vars

\* findBestAlbumMatch, called on its own, has returned.
Ranked == call.fn = "findBestAlbumMatch" /\ call.pc = "returned"

\* C22: for every non-empty result set, findBestAlbumMatch returns the
\* record that has the greatest score and comes first, in the order of the
\* result set, among the records with that score, if that score is at least
\* 50, and null if it is less than 50.
C22_BestIsFirstOfMaximal ==
  (Ranked /\ call.args[1] # <<>>) =>
    LET albums == call.args[1]
        scores == call.value.scores
        top    == CHOOSE i \in 1..Len(albums) :
                    /\ \A j \in 1..Len(albums) : scores[j] <= scores[i]
                    /\ \A j \in 1..(i - 1) : scores[j] < scores[i]
    IN  call.value.best =
          IF scores[top] >= 50 THEN MatchOf(albums[top]) ELSE NoMatch

\* Two records tie at the greatest score, which is at least 50, and the one
\* that comes first in the result set is returned.
C22_Witness ==
  /\ Ranked
  /\ call.args[1] = <<AlbMeddleReissue, AlbMeddle>>
  /\ call.value.scores[1] = call.value.scores[2]
  /\ call.value.scores[1] >= 50
  /\ call.value.best = MatchOf(AlbMeddleReissue)

\* Whether the similarity of two normalized strings is more than 0.7.
Close(a, b) ==
  LET f == fuzzyMatch(a, b) IN f.den # 0 /\ 10 * f.num > 7 * f.den

\* The album-name term of a record's score: one of four values.
NameTerm(name, album) ==
  CASE name = album -> 100
    [] name # album /\ (Includes(name, album) \/ Includes(album, name)) -> 60
    [] name # album /\ ~Includes(name, album) /\ ~Includes(album, name)
         /\ Close(name, album) -> 40
    [] OTHER -> 0

\* Whether a listed artist is the expected one or one holds the other.
ArtistMatches(listed, artist) ==
  \E n \in listed : n = artist \/ Includes(n, artist) \/ Includes(artist, n)

\* The artist term of a record's score: one of three values.
ArtistTerm(listed, artist) ==
  CASE ArtistMatches(listed, artist) -> 50
    [] ~ArtistMatches(listed, artist) /\ (\E n \in listed : Close(n, artist)) -> 25
    [] OTHER -> 0

\* The type term of a record's score.
TypeTerm(type) ==
  CASE type = "album" -> 15
    [] type = "single" -> -10
    [] type = "compilation" -> -5
    [] OTHER -> 0

\* The normalized names of a record's listed artists.
Listed(album) ==
  {normalizeForComparison(album.artists[k]) : k \in 1..Len(album.artists)}

\* C23: the score of a record is the sum of one album-name term (100 exact,
\* else 60 containment in either direction, else 40 similarity > 0.7, else
\* 0), one artist term (50 exact or containment with a listed artist, else
\* 25 similarity > 0.7 with a listed artist, else 0), one type term (+15
\* album, -10 single, -5 compilation, else 0) and +5 for eight tracks or
\* more; a record with the exact album name, a matching artist and type
\* album scores at least 165 and a record is returned.
C23_ScoreIsSumOfTerms ==
  Ranked =>
    LET albums == call.args[1]
        artist == normalizeForComparison(call.args[2])
        album  == normalizeForComparison(call.args[3])
    IN  \A i \in 1..Len(albums) :
          LET name == normalizeForComparison(albums[i].name)
          IN  /\ call.value.scores[i] =
                   NameTerm(name, album)
                   + ArtistTerm(Listed(albums[i]), artist)
                   + TypeTerm(albums[i].album_type)
                   + (IF albums[i].total_tracks >= 8 THEN 5 ELSE 0)
              /\ (/\ name = album
                  /\ ArtistMatches(Listed(albums[i]), artist)
                  /\ albums[i].album_type = "album") =>
                    /\ call.value.scores[i] >= 165
                    /\ call.value.best # NoMatch

\* A record with the exact album name, the expected artist and type album,
\* alone in the result set, has scored 165 and is returned.
C23_Witness ==
  /\ Ranked
  /\ call.args = <<<<AlbMeddle>>, PinkFloyd, Meddle>>
  /\ call.value.scores = <<165>>
  /\ call.value.best = MatchOf(AlbMeddle)

\* Whether two normalized strings are unrelated: not equal, neither holds
\* the other, and their similarity is not more than 0.7.
Unrelated(a, b) ==
  a # b /\ ~Includes(a, b) /\ ~Includes(b, a) /\ ~Close(a, b)

\* C24: a result set of one record whose album name and listed artists are
\* unrelated to the expected album and artist makes findBestAlbumMatch
\* return null, whatever the record's type and number of tracks.
C24_UnrelatedCandidateRejected ==
  (Ranked /\ Len(call.args[1]) = 1) =>
    LET a == call.args[1][1]
    IN  (/\ Unrelated(normalizeForComparison(a.name),
                      normalizeForComparison(call.args[3]))
         /\ \A n \in Listed(a) :
              Unrelated(n, normalizeForComparison(call.args[2]))) =>
           call.value.best = NoMatch

\* An unrelated record of type album with eight tracks, alone in the result
\* set, has the greatest score such a record can have and null is returned.
C24_Witness ==
  /\ Ranked
  /\ Len(call.args[1]) = 1
  /\ call.args[1][1].name = <<"X","y","z">>
  /\ call.args[1][1].artists = <<<<"Q","r","s">>>>
  /\ call.args[1][1].album_type = "album"
  /\ call.args[1][1].total_tracks = 8
  /\ call.args[2] = PinkFloyd
  /\ call.value.scores = <<20>>
  /\ call.value.best = NoMatch

\* fuzzyMatch, called on its own, has returned.
Compared == call.fn = "fuzzyMatch" /\ call.pc = "returned"

\* The set of the contiguous two-character substrings of a string.
Bigrams(a) == {SubSeq(a, i, i + 1) : i \in 1..(Len(a) - 1)}

\* C25: for all strings a and b the similarity is a defined number in
\* [0, 1]: 0 when either string is empty, 1 when they are identical, and
\* otherwise 2*|A \cap B| / (|A| + |B|) for the sets A and B of the
\* two-character substrings of a and b (the empty set for a string of one
\* character).
C25_SimilarityDefined ==
  Compared =>
    LET a == call.args[1]
        b == call.args[2]
        f == call.value
    IN  /\ f.den # 0
        /\ 0 <= f.num /\ f.num <= f.den
        /\ (Falsy(a) \/ Falsy(b)) => f.num = 0
        /\ (~Falsy(a) /\ a = b) => f.num = f.den
        /\ (~Falsy(a) /\ ~Falsy(b) /\ a # b) =>
             f.num * (Cardinality(Bigrams(a)) + Cardinality(Bigrams(b)))
               = 2 * Cardinality(Bigrams(a) \cap Bigrams(b)) * f.den

\* C26 as stated: the similarity of "night" and "nite" is greater than 0.3.
C26_NightNiteAbove03 ==
  (Compared /\ call.args = <<Night, Nite>>) =>
    call.value.den # 0 /\ 10 * call.value.num > 3 * call.value.den

\* C26, amended: the similarity of "night" and "nite" is 2/7 (one common
\* two-character substring, "ni", of four and three), which is greater than
\* 0.28 and not greater than 0.3.
C26_NightNiteIsTwoSevenths ==
  (Compared /\ call.args = <<Night, Nite>>) =>
    /\ call.value.den # 0
    /\ 7 * call.value.num = 2 * call.value.den
    /\ 100 * call.value.num > 28 * call.value.den
    /\ ~(10 * call.value.num > 3 * call.value.den)

\* fuzzyMatch("night", "nite") has returned a number.
C26_Witness ==
  /\ Compared
  /\ call.args = <<Night, Nite>>
  /\ call.value.den # 0

\* cleanSearchTerm, called on its own, has returned.
Normalized == call.fn = "cleanSearchTerm" /\ call.pc = "returned"

\* Whether a string ends with a parenthesized integer, white space aside,
\* and holds no other one.
OneTrailingNumber(term) ==
  LET ends == {i \in 1..Len(term) : term[i] = ")"}
      at   == {i \in 1..Len(term) :
                 term[i] = "(" /\ i + 2 <= Len(term)
                 /\ IsDigit(term[i + 1]) /\ term[i + 2] = ")"}
  IN  /\ Cardinality(at) = 1
      /\ \A i \in at : \A k \in (i + 3)..Len(term) : IsSpace(term[k])

\* C27: cleanSearchTerm returns the empty string for null and for the empty
\* string, removes a trailing parenthesized integer ("Abbey Road (2)" gives
\* "Abbey Road") and every span in brackets ("Album [Deluxe Edition]" gives
\* "Album"), and leaves the white space collapsed and trimmed.
C27_NormalizeStripsSuffixAndBrackets ==
  Normalized =>
    LET term == call.args[1]
        out  == call.value
    IN  /\ Falsy(term) => out = <<>>
        /\ term = AbbeyRoad2 => out = SubSeq(AbbeyRoad2, 1, 10)
        /\ term = AlbumDeluxeEdition => out = SubSeq(AlbumDeluxeEdition, 1, 5)
        /\ (~Falsy(term) /\ OneTrailingNumber(term)) =>
             ~\E i \in 1..Len(out) :
                out[i] = "(" /\ i + 2 <= Len(out) /\ IsDigit(out[i + 1])
                /\ out[i + 2] = ")"
        /\ ~\E i \in 1..Len(out) : \E j \in (i + 1)..Len(out) :
              out[i] = "[" /\ out[j] = "]"
        /\ \A i \in 1..Len(out) :
              IsSpace(out[i]) =>
                i > 1 /\ i < Len(out) /\ ~IsSpace(out[i + 1])

\* A term with a span in brackets, a word and a trailing number has been
\* cleaned to the word.
C27_Witness ==
  /\ Normalized
  /\ call.args[1] = <<"[","L","P","]"," ","A","b"," ","(","2",")">>
  /\ call.value = <<"A","b">>

\* Whether index k of a term lies in a parenthesized span (from a "(" to the
\* first ")" after it, with no "(" in between) whose content holds one of
\* the five words, in any case.
InKeywordSpan(term, k) ==
  \E i \in 1..k : \E j \in k..Len(term) :
    /\ term[i] = "(" /\ term[j] = ")"
    /\ \A m \in (i + 1)..(j - 1) : term[m] # "(" /\ term[m] # ")"
    /\ \E kw \in {KwEdition, KwRemaster, KwVersion, KwDeluxe, KwBonus} :
         \E q \in (i + 1)..(j - Len(kw)) : KeywordAt(term, q, kw)

\* A string without its white space.
Squeezed(s) == SelectSeq(s, LAMBDA c : ~IsSpace(c))

\* C28: cleanSearchTerm removes a parenthesized span only when the span's
\* own content holds one of edition, remaster, version, deluxe and bonus (in
\* any case); the text outside such spans, other parenthesized spans and the
\* words between spans included, is kept. (Stated for terms with no number
\* and no bracket, white space aside.)
C28_OnlyKeywordSpansRemoved ==
  (/\ Normalized
   /\ ~Falsy(call.args[1])
   /\ \A k \in 1..Len(call.args[1]) :
        ~IsDigit(call.args[1][k]) /\ call.args[1][k] \notin {"[", "]"}) =>
     LET term == call.args[1]
     IN  Squeezed(call.value) =
           Squeezed([k \in 1..Len(term) |->
                       IF InKeywordSpan(term, k) THEN " " ELSE term[k]])

\* Both SEARCH_SPOTIFY handlers have answered, in a run whose catalog
\* answers every query with the same result set, and the token endpoint has
\* refused neither of them a token.
BothAnswered ==
  /\ env = RaceRun
  /\ \A t \in Searches :
       task[t].pc = "done" /\ task[t].ensure \notin {"rejected", "failed"}

\* C21: two searches with identical metadata, against a catalog that
\* returns the same result set for the same query, get the identical
\* result; the first changes neither the metadata nor any state that
\* changes the result of the second.
C21_SameMetadataSameResult ==
  (BothAnswered /\ task["s1"].md = task["s2"].md) =>
    task["s1"].result = task["s2"].result

\* C29: since the URL of the tab last changed, the content script has
\* sent at most one SEARCH_SPOTIFY request, whatever the order of the
\* processPage timers, the observer, the URL poll and popstate.
C29_OneSearchPerPageView ==
  tab.sent <= 1

\* C30: a content script that read the setting false at init has no timer
\* and no search pending, has sent nothing and has put nothing into the
\* page, whatever the page and the popup do afterwards; a script that
\* read no setting is enabled.
C30_DisabledScriptDoesNothing ==
  /\ (script.pc \in {"observing", "returned"} /\ script.settings = "false") =>
       /\ script.pc = "returned"
       /\ ~script.isEnabled
       /\ script.timers = 0
       /\ script.awaiting = <<>>
       /\ tab.sent = 0
       /\ tab.players = 0
       /\ tab.nomatch = 0
  /\ (script.pc \in {"observing", "returned"} /\ script.settings = "unset") =>
       /\ script.pc = "observing"
       /\ script.isEnabled

\* C30 witness: the script read the setting false; since then the popup
\* has enabled the extension, and the site has shown another page with
\* an embed and metadata, and nothing was sent.
C30_Witness ==
  /\ script.pc = "returned"
  /\ script.settings = "false"
  /\ tab.enabled = "true"
  /\ tab.href > 1
  /\ tab.embed
  /\ tab.meta
  /\ tab.sent = 0

\* initialize() goes on after its chrome.storage.local.get.
Initializes == task["init"].pc = "load_wait" /\ task'["init"].pc # "load_wait"

\* C31: when initialize() has read the storage, it puts the stored token
\* and expiry into memory and sends no token request if and only if a token
\* is stored whose stored expiry is later than the clock; otherwise it
\* sends one token request when both credentials are stored and none when
\* they are not; and it sends no token request at any other step.
C31_InitRestoresOrExchangesOnce ==
  [][LET exchanges == {r \in net' \ net : r.kind = "token" /\ r.task = "init"}
         valid == /\ storage.spotifyToken # NoToken
                  /\ storage.spotifyTokenExpires # NullNum
                  /\ storage.spotifyTokenExpires > now
         restored == /\ accessToken' # NoToken
                     /\ accessToken' = storage.spotifyToken
                     /\ tokenExpiresAt' = storage.spotifyTokenExpires
         configured == /\ storage.spotifyClientId # Null
                       /\ storage.spotifyClientSecret # Null
     IN  IF Initializes
         THEN /\ (restored /\ exchanges = {}) <=> valid
              /\ ~valid => Cardinality(exchanges) = IF configured THEN 1 ELSE 0
              /\ \A r \in exchanges :
                   /\ r.cid = storage.spotifyClientId
                   /\ r.secret = storage.spotifyClientSecret
         ELSE exchanges = {}]_vars

\* C31 witness: the service worker was started anew and initialize() has
\* restored, without an exchange, the token that an exchange of the first
\* start had stored.
C31_Witness ==
  /\ env = [RestartRun EXCEPT !.events = @ \ {"restart"}]
  /\ task["init"].pc = "done"
  /\ task["init"].pending.spotifyToken = NoToken
  /\ accessToken # NoToken
  /\ accessToken = storage.spotifyToken
  /\ accessToken.iat = StartTime

\* C36: a token in memory comes with both credentials in memory.
C36_TokenOnlyWithCredentials ==
  accessToken # NoToken => (Truthy(clientId) /\ Truthy(clientSecret))

\* C38: initialize() never puts into memory a token that the service had
\* set to null on a 401 or on a change of the credentials.
C38_InvalidatedTokenNotRestored ==
  [][(Initializes /\ accessToken' # NoToken) =>
       accessToken' \notin invalidated]_vars

\* The token request of task t is answered with a failure:
\* getClientCredentialsToken throws before it has assigned anything.
ExchangeFails(t) ==
  /\ task[t].pc = "token_wait"
  /\ task'[t].pc \notin {"token_wait", "store_wait"}

\* C34: the step in which a token exchange fails (status not ok, or the
\* fetch rejects) changes neither the token and expiry in memory nor the
\* token and expiry in storage; so for the exchange of the renewal timer.
C34_FailedExchangeKeepsToken ==
  [][\A t \in Tasks :
       ExchangeFails(t) =>
         /\ accessToken' = accessToken
         /\ tokenExpiresAt' = tokenExpiresAt
         /\ storage'.spotifyToken = storage.spotifyToken
         /\ storage'.spotifyTokenExpires = storage.spotifyTokenExpires]_vars

\* C34 witness: the exchange of the renewal timer has failed and the token
\* that was in memory when the timer fired is still there and in storage.
C34_Witness ==
  /\ task["timer"].pc = "done"
  /\ task["timer"].ensure = "exchange"
  /\ task["timer"].pending.spotifyToken = NoToken
  /\ accessToken # NoToken
  /\ storage.spotifyToken = accessToken
  /\ storage.spotifyTokenExpires = tokenExpiresAt

\* C35: every catalog request is sent with a token: none carries the
\* null of an absent accessToken.
C35_NoRequestWithoutToken ==
  [][\A t \in Searches : \A r \in SentSearches(t) : r.bearer # NoToken]_vars

\* C37: in a run in which the stored credentials do not change, while both
\* credentials are in storage every reply to GET_AUTH_STATUS has
\* isConfigured true and no SEARCH_SPOTIFY is answered null because
\* ensureValidToken found no credentials.
C37_StoredCredentialsAreSeen ==
  [][(/\ "credentials" \notin env.events
      /\ Truthy(storage.spotifyClientId)
      /\ Truthy(storage.spotifyClientSecret)) =>
       /\ (task'["status"] # task["status"] /\ task'["status"].pc = "done") =>
            task'["status"].result.isConfigured
       /\ \A t \in Searches :
            (Arrives(t) /\ task'[t].pc = "done") => task'[t].ensure # "nocreds"]_vars

\* C40: when the expected artist is empty once normalized for comparison,
\* the score of every record is its album-name term, type term and track
\* term, with nothing for the artist; when the expected album is empty,
\* it is the artist term, type term and track term, with nothing for the
\* album name.
C40_EmptyExpectedGivesNoBonus ==
  Ranked =>
    LET albums == call.args[1]
        artist == normalizeForComparison(call.args[2])
        album  == normalizeForComparison(call.args[3])
    IN  \A i \in 1..Len(albums) :
          LET name == normalizeForComparison(albums[i].name)
              rest == TypeTerm(albums[i].album_type)
                      + (IF albums[i].total_tracks >= 8 THEN 5 ELSE 0)
          IN  /\ artist = <<>> =>
                   call.value.scores[i] = NameTerm(name, album) + rest
              /\ album = <<>> =>
                   call.value.scores[i] =
                     ArtistTerm(Listed(albums[i]), artist) + rest

\* C32: the document holds at most one Spotify player container.
C32_AtMostOnePlayer ==
  tab.players <= 1

\* C32 witness: two searches were sent for the page shown, both have been
\* answered, and one player is in the document of a later page view.
C32_Witness ==
  /\ tab.href > 1
  /\ tab.sent = 2
  /\ script.awaiting = <<>>
  /\ tab.players = 1

\* C39: once handleNavigation has run for the page shown, every player and
\* no-match message in the document comes from a search sent for that
\* page.
C39_ElementsAreOfCurrentPage ==
  (script.pc = "observing" /\ script.currentUrl = tab.href) =>
    tab.origin \subseteq {tab.href}

====
